---- MODULE Spec2Model ----
(***************************************************************************)
(* A model of webshotify's request-admission and asynchronous job          *)
(* pipeline: WebhookService (src/webhook_service.py) and RateLimiter       *)
(* (src/rate_limiter.py), as they are driven by src/app.py; and of the     *)
(* synchronous /screenshot handler of src/app.py with its CacheService     *)
(* (src/cache_service.py).                                                 *)
(***************************************************************************)
EXTENDS Integers, Sequences, FiniteSets, TLC

(***************************************************************************)
(* Bounds of the model.                                                    *)
(***************************************************************************)
MaxJobs == 1            \* job ids that create_job can hand out
MaxWorkers == 2         \* worker threads process_job_async can start
MaxDeliveries == 2      \* delivery threads trigger_webhook can start
MaxApiCalls == 2        \* direct update_job_status / trigger_webhook calls
MaxTicks == 1           \* how often the job clock advances
TickHours == 49         \* hours that pass when it does
MaxThreads == 2         \* request threads inside the rate limiter
MaxAdvances == 2        \* how often the wall clock advances
MaxChecks == 4          \* check_rate_limit calls per run
TicksPerSec == 2        \* resolution of the limiter's clock
requests_per_minute == 2  \* RateLimiter(requests_per_minute=2, ...)
requests_per_hour == 3    \* RateLimiter(..., requests_per_hour=3)
MaxCacheCalls == 3      \* CacheService calls per run
MaxRequests == 3        \* /screenshot requests per run

(***************************************************************************)
(* Program constants.                                                      *)
(***************************************************************************)
max_retries == 3
max_age_hours == 48
cache_duration_hours == 24

JobIds == 1..MaxJobs
Workers == 1..MaxWorkers
Deliveries == 1..MaxDeliveries

Null == "None"
Statuses == {"pending", "processing", "completed", "failed"}
Terminal == {"completed", "failed"}

\* What job_function can do: return a value (truthy or None) or raise an
\* exception whose str() is a message or the empty string.
ReturnValues == {"artifact", Null}
ErrorTexts == {"boom", ""}
Outcomes == [kind : {"return"}, value : ReturnValues]
            \cup [kind : {"raise"}, value : ErrorTexts]

\* What requests.post can do: answer 200, another 2xx, a non-2xx status, or
\* raise (transport error, timeout).
Responses == {"200", "204", "500", "exc"}
Is2xx(resp) == resp \in {"200", "204"}

\* Python truthiness of the values used here.
Truthy(v) == v \notin {Null, ""}

VARIABLES
    jobs,       \* self.jobs: a dict from job id to job record
    worker,     \* the threads started by process_job_async
    deliv,      \* the threads started by trigger_webhook
    clock,      \* datetime.now(), in hours
    hist,       \* per job, the statuses its record has held, in order
    api_calls,  \* number of direct API calls made so far
    now,              \* time.time(), in ticks of 1/TicksPerSec second
    minute_requests,  \* self.minute_requests: credential -> deque
    hour_requests,    \* self.hour_requests: credential -> deque
    rl,               \* the request threads inside check_rate_limit
    last,             \* the last rate limiter call that returned
    admitted,         \* per credential, the timestamps admitted so far
    advances,         \* how often the limiter's clock has advanced
    checks,           \* check_rate_limit calls started so far
    cache_index,      \* self.cache_index: cache key -> entry
    cache_files,      \* the files of the cache directory: path -> content
    clast,            \* the last cache call that returned
    cache_calls,      \* cache calls made so far
    response,         \* the last response of the /screenshot handler
    origin,           \* per cache key, the request whose capture was stored
    requests,         \* /screenshot requests handled so far
    kin,              \* two parameter tuples to fingerprint
    kout,             \* their pre-hash key strings
    job_file,         \* webhooks/jobs.json as it is on disk
    cache_index_file, \* cache/cache_index.json as it is on disk
    view,             \* what the last get_job_status call returned
    sin,              \* payloads, secrets and a signature to verify
    sout,             \* what verify_webhook_signature returned for them
    swept,            \* what the last cleanup_old_jobs call returned
    ct,               \* the request threads inside the CacheService
    st                \* the threads that update a job and save the table

jvars == <<jobs, job_file, worker, deliv, clock, hist, api_calls>>
rvars == <<now, minute_requests, hour_requests, rl, last, admitted,
           advances, checks>>
cvars == <<cache_index, cache_index_file, cache_files, clast, cache_calls>>
svars == <<response, origin, requests>>
kvars == <<kin, kout>>
xvars == <<view, sin, sout, swept, ct, st>>
avars == <<cvars, svars, kvars, xvars>>
vars == <<jobs, worker, deliv, clock, hist, api_calls,
          now, minute_requests, hour_requests, rl, last, admitted,
          advances, checks,
          cache_index, cache_files, clast, cache_calls,
          response, origin, requests, kin, kout,
          job_file, cache_index_file, view, sin, sout, swept, ct, st>>

NoOutcome == [kind |-> "none", value |-> Null]
Keys == {"k1", "k2"}
Threads == 1..MaxThreads
Minute == 60 * TicksPerSec
Hour == 3600 * TicksPerSec
\* The clock moves by half a second, a minute or an hour at a time.
ClockSteps == {1, Minute, Hour}

IdleThread == [pc |-> "idle", key |-> "k1", current_time |-> 0, prior |-> <<>>]
\* What get_remaining_requests returns.
NoRemaining == [per_minute |-> 0, per_hour |-> 0]
NoCall == [op |-> "none", key |-> "k1", time |-> 0, allowed |-> FALSE,
           seconds |-> 0, prior |-> <<>>, remaining |-> NoRemaining]

\* RateLimiter.__init__
RLInit ==
    /\ now = 0
    /\ minute_requests = [k \in Keys |-> <<>>]
    /\ hour_requests = [k \in Keys |-> <<>>]
    /\ rl = [t \in Threads |-> IdleThread]
    /\ last = NoCall
    /\ admitted = [k \in Keys |-> <<>>]
    /\ advances = 0
    /\ checks = 0

(***************************************************************************)
(* Values of the cache and of the /screenshot handler.                     *)
(***************************************************************************)
\* Python values. A str is the sequence of its pieces between "|"
\* characters, each "|" a piece of its own.
PyNone == [t |-> "NoneType", v |-> <<>>]
PyStr(s) == [t |-> "str", v |-> s]
PyInt(n) == [t |-> "int", v |-> n]
PyBool(b) == [t |-> "bool", v |-> b]

\* What an f-string makes of a value: str(v).
str(x) ==
    CASE x.t = "NoneType" -> <<"None">>
      [] x.t = "str" -> x.v
      [] x.t = "int" -> <<ToString(x.v)>>
      [] x.t = "bool" -> IF x.v THEN <<"True">> ELSE <<"False">>

\* hashlib.sha256(s.encode()).hexdigest(), taken to be injective: the digest
\* is one piece that stands for the string hashed.
sha256(s) == [hexdigest |-> s]

\* Paths: directory, file stem and suffix.
FilePath(dir, stem, suffix) == [dir |-> dir, stem |-> stem, suffix |-> suffix]

\* datetime.isoformat() and datetime.fromisoformat().
isoformat(time) == <<"iso", time>>
fromisoformat(text) == text[2]

\* timedelta(hours=h), in ticks.
timedelta(hours) == hours * Hour

\* The clock moves by half a second or by cache_duration_hours.
CacheSteps == {1, timedelta(cache_duration_hours)}

\* Keys and artifacts handed to the CacheService directly.
CacheKeys == {"h1", "h2"}
Artifacts ==
    {[path |-> FilePath("screenshots", "s1", ".png"), content |-> "A"],
     [path |-> FilePath("screenshots", "s2", ".pdf"), content |-> "B"]}

NoPath == FilePath("", "", "")
NoBrief == [op |-> "none", key |-> "h1", found |-> FALSE, time |-> 0,
            content |-> ""]
NoCacheCall == [op |-> "none", key |-> "h1", found |-> FALSE, path |-> NoPath,
                time |-> 0, content |-> "", pre_index |-> <<>>,
                pre_files |-> <<>>, prev |-> NoBrief, count |-> 0]

\* The parameters of a /screenshot request as lines 160-208 leave them.
DefaultParams ==
    [url |-> PyStr(<<"http://a">>), width |-> PyInt(1920),
     height |-> PyInt(1080), fullpage |-> PyBool(FALSE),
     image_format |-> PyStr(<<"png">>), quality |-> PyInt(80),
     delay |-> PyInt(0), selector |-> PyNone, device |-> PyNone,
     user_agent |-> PyNone, dark_mode |-> PyBool(FALSE),
     wait_for_selector |-> PyNone, custom_script |-> PyNone,
     block_ads |-> PyBool(FALSE), scroll_page |-> PyBool(FALSE),
     media_type |-> PyNone, timezone |-> PyNone, extra_headers |-> PyNone,
     cookies |-> PyNone, geolocation |-> PyNone,
     browser_type |-> PyStr(<<"chromium">>),
     disable_animations |-> PyBool(FALSE), inject_data |-> PyNone]

\* No parameters: nothing has been asked for.
NoParams == <<>>
NoHeaders == [present |-> FALSE, minute |-> <<>>, hour |-> <<>>]
NoOrigin == [stored |-> FALSE, params |-> NoParams, time |-> 0]
NoResponse == [status |-> 0, served |-> "none", captures |-> 0,
               headers |-> NoHeaders, params |-> NoParams,
               before |-> NoOrigin, stored |-> FALSE, time |-> 0,
               content |-> NoParams, retry_after |-> 0]
NoKeys == <<>>

\* CacheService.__init__ with no index file on disk.
CacheInit ==
    /\ cache_index = <<>>
    /\ cache_files = <<>>
    /\ clast = NoCacheCall
    /\ cache_calls = 0

\* The handler has answered nothing yet.
HandlerInit ==
    /\ response = NoResponse
    /\ origin = <<>>
    /\ requests = 0

FreeWorker == [job |-> 0, pc |-> "free", outcome |-> NoOutcome]
FreeDelivery == [job |-> 0, pc |-> "free", attempt |-> 0,
                 delays |-> <<>>, only_non2xx |-> TRUE, got_2xx |-> FALSE]

(***************************************************************************)
(* The two JSON files and the process that owns them.                      *)
(***************************************************************************)
\* json.dump(obj, f) writes the text of obj and json.load(f) parses a text:
\* the tables hold str keys and str, int, bool and None values only, which
\* JSON gives back as they were.
json_dump(obj) == <<"json", obj>>
json_load(text) == text[2]

\* A file of the working directory: absent, holding a complete JSON text,
\* or present with bytes json.load cannot parse (an empty or cut-off text,
\* or other bytes).
NoFile == [state |-> "missing", text |-> <<>>]
Unreadable == [state |-> "unreadable", text |-> <<>>]
Written(obj) == [state |-> "written", text |-> json_dump(obj)]

\* save_jobs(): open(self.job_file, 'w') and json.dump(self.jobs, f), run to
\* the end.
save_jobs(table) == Written(table)

\* _save_cache_index(), run to the end.
save_cache_index(index) == Written(index)

\* A finished job of an earlier run.
OldJob ==
    [status |-> "completed", webhook_url |-> FALSE, updated_at |-> 0,
     result |-> "artifact", error |-> Null, attempts |-> 0,
     webhook_delivered |-> FALSE, webhook_failed |-> FALSE]
OldJobs == [j \in {1} |-> OldJob]

\* A load that finds a job in a file it cannot parse.
load_jobs_phantom(file) ==
    IF file.state = "written"
    THEN json_load(file.text)
    ELSE IF file.state = "unreadable" THEN OldJobs ELSE <<>>

\* load_jobs(), after self.jobs = {} (line 22): the table of an existing
\* file, {} when json.load raises.
load_jobs(file) ==
    IF file.state = "written" THEN json_load(file.text) ELSE <<>>

\* _load_cache_index()
load_cache_index(file) ==
    IF file.state = "written" THEN json_load(file.text) ELSE <<>>

\* get_job_status has returned nothing yet.
NoView == [job_id |-> 0, returned |-> PyNone]
NoSignatures == [own |-> "none", other |-> "none"]
\* A thread that is in no CacheService call.
NoEntry == [file_path |-> NoPath, timestamp |-> isoformat(0),
            original_path |-> NoPath]
IdleCacheThread ==
    [pc |-> "idle", op |-> "none", key |-> "h1", entry |-> NoEntry,
     time |-> 0, size |-> 0, todo |-> {}, expired |-> <<>>, result |-> "none"]
\* A thread that is not at work on a job.
IdleSaver == [pc |-> "idle", after |-> "idle", buffer |-> <<>>]
\* cleanup_old_jobs has not been called.
NoSweep == [returned |-> -1, before |-> <<>>, max_age |-> 0, time |-> 0]

\* The directory holds neither file, and nothing has been asked of the
\* process.
ProcessInit ==
    /\ job_file = NoFile
    /\ cache_index_file = NoFile
    /\ view = NoView
    /\ swept = NoSweep
    /\ ct = [t \in Threads |-> IdleCacheThread]
    /\ st = [t \in Threads |-> IdleSaver]

\* The services as src/app.py lines 31-35 construct them.
Services ==
    /\ ProcessInit
    /\ jobs = <<>>
    /\ worker = [w \in Workers |-> FreeWorker]
    /\ deliv = [d \in Deliveries |-> FreeDelivery]
    /\ clock = 0
    /\ hist = [j \in JobIds |-> <<>>]
    /\ api_calls = 0
    /\ RLInit
    /\ CacheInit
    /\ HandlerInit

Init ==
    /\ Services
    /\ kin = <<NoParams, NoParams>>
    /\ kout = NoKeys
    /\ sin = NoSignatures
    /\ sout = NoSignatures

Created(j) == hist[j] # <<>>

\* uuid.uuid4(): an id no job has had.
FreshIds == {j \in JobIds : ~Created(j)}

\* The record create_job builds.
NewJob(webhook_url) ==
    [status |-> "pending", webhook_url |-> webhook_url, updated_at |-> clock,
     result |-> Null, error |-> Null, attempts |-> 0,
     webhook_delivered |-> FALSE, webhook_failed |-> FALSE]

\* A create_job that runs the work itself before it returns.
CreateJobBlocking(webhook_url) ==
    /\ FreshIds # {}
    /\ LET job_id == CHOOSE j \in FreshIds : \A k \in FreshIds : j <= k
       IN /\ jobs' = [j \in DOMAIN jobs \cup {job_id} |->
                       IF j = job_id THEN NewJob(webhook_url) ELSE jobs[j]]
          /\ hist' = [hist EXCEPT ![job_id] = <<"pending">>]
          /\ job_file' = save_jobs(jobs')
          /\ worker' = [worker EXCEPT ![1] =
                           [job |-> job_id, pc |-> "finish",
                            outcome |-> [kind |-> "return",
                                         value |-> "artifact"]]]
    /\ UNCHANGED <<deliv, clock, api_calls, rvars, avars>>

\* create_job(job_type, params, webhook_url, webhook_secret)
CreateJob(webhook_url) ==
    /\ FreshIds # {}
    /\ LET job_id == CHOOSE j \in FreshIds : \A k \in FreshIds : j <= k
       IN /\ jobs' = [j \in DOMAIN jobs \cup {job_id} |->
                       IF j = job_id THEN NewJob(webhook_url) ELSE jobs[j]]
          /\ hist' = [hist EXCEPT ![job_id] = <<"pending">>]
          /\ job_file' = save_jobs(jobs')
    /\ UNCHANGED <<worker, deliv, clock, api_calls, rvars, avars>>

\* Starting a thread takes the next unused thread slot.
FreeSlots(threads) == {t \in DOMAIN threads : threads[t].pc = "free"}
NextSlot(threads) ==
    CHOOSE t \in FreeSlots(threads) : \A u \in FreeSlots(threads) : t <= u

\* A trigger_webhook that does not look at the job's webhook_url.
trigger_webhook_any_target(job_id) ==
    IF job_id \notin DOMAIN jobs
    THEN UNCHANGED deliv
    ELSE /\ FreeSlots(deliv) # {}
         /\ deliv' = [deliv EXCEPT ![NextSlot(deliv)] =
                         [FreeDelivery EXCEPT !.job = job_id, !.pc = "post"]]

\* trigger_webhook(job_id): no target, no delivery; otherwise a new thread
\* running _send_webhook is started, whatever was started before.
trigger_webhook(job_id) ==
    IF job_id \notin DOMAIN jobs \/ ~jobs[job_id].webhook_url
    THEN UNCHANGED deliv
    ELSE /\ FreeSlots(deliv) # {}
         /\ deliv' = [deliv EXCEPT ![NextSlot(deliv)] =
                         [FreeDelivery EXCEPT !.job = job_id, !.pc = "post"]]

\* The record after update_job_status's assignments (lines 93-100).
UpdatedJob(job, status, result, error) ==
    [job EXCEPT !.status = status,
                !.updated_at = clock,
                !.result = IF Truthy(result) THEN result ELSE @,
                !.error = IF Truthy(error) THEN error ELSE @]

\* update_job_status(job_id, status, result, error)
update_job_status(job_id, status, result, error) ==
    IF job_id \notin DOMAIN jobs
    THEN UNCHANGED <<jobs, job_file, hist, deliv>>
    ELSE /\ jobs' = [jobs EXCEPT ![job_id] =
                        UpdatedJob(@, status, result, error)]
         /\ job_file' = save_jobs(jobs')
         /\ hist' = [hist EXCEPT ![job_id] =
                        IF jobs[job_id].status = status
                        THEN @ ELSE Append(@, status)]
         /\ IF status \in Terminal
            THEN trigger_webhook(job_id)
            ELSE UNCHANGED deliv

\* process_job_async(job_id, job_function): start a worker thread.
ProcessJobAsync(job_id) ==
    /\ Created(job_id)
    /\ FreeSlots(worker) # {}
    /\ worker' = [worker EXCEPT ![NextSlot(worker)] =
                     [FreeWorker EXCEPT !.job = job_id, !.pc = "start"]]
    /\ UNCHANGED <<jobs, job_file, deliv, clock, hist, api_calls, rvars, avars>>

\* How often process_job_async has been called for a job.
Scheduled(job_id) == Cardinality({w \in Workers : worker[w].job = job_id})

\* A worker that runs the job without first recording 'processing'.
WorkerProcessingSkipped(w) ==
    /\ worker[w].pc = "start"
    /\ worker' = [worker EXCEPT ![w].pc = "exec"]
    /\ UNCHANGED <<jobs, job_file, deliv, hist, clock, api_calls, rvars, avars>>

\* worker(), line 241: self.update_job_status(job_id, 'processing')
WorkerProcessing(w) ==
    /\ worker[w].pc = "start"
    /\ update_job_status(worker[w].job, "processing", Null, Null)
    /\ worker' = [worker EXCEPT ![w].pc = "exec"]
    /\ UNCHANGED <<clock, api_calls, rvars, avars>>

\* worker(), line 244: result = job_function(*args, **kwargs)
WorkerExecute(w, outcome) ==
    /\ worker[w].pc = "exec"
    /\ worker' = [worker EXCEPT ![w].pc = "finish", ![w].outcome = outcome]
    /\ UNCHANGED <<jobs, job_file, deliv, clock, hist, api_calls, rvars, avars>>

\* A worker whose except branch hands the message over as result as well.
WorkerFinishBothSet(w) ==
    /\ worker[w].pc = "finish"
    /\ IF worker[w].outcome.kind = "return"
       THEN update_job_status(worker[w].job, "completed",
                              worker[w].outcome.value, Null)
       ELSE update_job_status(worker[w].job, "failed",
                              worker[w].outcome.value, worker[w].outcome.value)
    /\ worker' = [worker EXCEPT ![w].pc = "done"]
    /\ UNCHANGED <<clock, api_calls, rvars, avars>>

\* A worker whose except branch records the failure without its message.
WorkerFinishNoMessage(w) ==
    /\ worker[w].pc = "finish"
    /\ IF worker[w].outcome.kind = "return"
       THEN update_job_status(worker[w].job, "completed",
                              worker[w].outcome.value, Null)
       ELSE update_job_status(worker[w].job, "failed", Null, Null)
    /\ worker' = [worker EXCEPT ![w].pc = "done"]
    /\ UNCHANGED <<clock, api_calls, rvars, avars>>

\* A worker without the except branch: an exception of the work function
\* ends the thread.
WorkerFinishUncaught(w) ==
    /\ worker[w].pc = "finish"
    /\ IF worker[w].outcome.kind = "return"
       THEN update_job_status(worker[w].job, "completed",
                              worker[w].outcome.value, Null)
       ELSE UNCHANGED <<jobs, job_file, hist, deliv>>
    /\ worker' = [worker EXCEPT ![w].pc = "done"]
    /\ UNCHANGED <<clock, api_calls, rvars, avars>>

\* worker(), lines 247 and 251: the terminal update.
WorkerFinish(w) ==
    /\ worker[w].pc = "finish"
    /\ IF worker[w].outcome.kind = "return"
       THEN update_job_status(worker[w].job, "completed",
                              worker[w].outcome.value, Null)
       ELSE update_job_status(worker[w].job, "failed",
                              Null, worker[w].outcome.value)
    /\ worker' = [worker EXCEPT ![w].pc = "done"]
    /\ UNCHANGED <<clock, api_calls, rvars, avars>>

\* time.sleep(2 ** attempt), line 188
Backoff(attempt) == 2 ^ attempt

\* One pass of the loop of _send_webhook (lines 169-188): one requests.post
\* and what follows it.  A 200 marks the job delivered and ends the thread; a
\* missing job record raises KeyError inside the try, which is handled like a
\* transport error.  Only the except branch sleeps.
DeliverPost(d, resp) ==
    LET job_id == deliv[d].job
        attempt == deliv[d].attempt
        raised == resp = "exc" \/ (resp = "200" /\ job_id \notin DOMAIN jobs)
        slept == IF raised /\ attempt < max_retries - 1
                 THEN Backoff(attempt) ELSE 0
    IN /\ deliv[d].pc = "post"
       /\ IF resp = "200" /\ ~raised
          THEN /\ jobs' = [jobs EXCEPT ![job_id].webhook_delivered = TRUE]
               /\ job_file' = save_jobs(jobs')
               /\ deliv' = [deliv EXCEPT ![d].pc = "done",
                                         ![d].attempt = attempt + 1,
                                         ![d].only_non2xx = FALSE,
                                         ![d].got_2xx = TRUE]
          ELSE /\ jobs' = jobs
               /\ job_file' = job_file
               /\ deliv' = [deliv EXCEPT
                     ![d].pc = IF attempt + 1 < max_retries
                               THEN "post" ELSE "exhausted",
                     ![d].attempt = attempt + 1,
                     ![d].delays = IF attempt + 1 < max_retries
                                   THEN Append(@, slept) ELSE @,
                     ![d].only_non2xx = @ /\ resp = "500",
                     ![d].got_2xx = @ \/ Is2xx(resp)]
       /\ UNCHANGED <<worker, clock, hist, api_calls, rvars, avars>>

\* A give-up that records the attempts but not the failure.
DeliverGiveUpUnmarked(d) ==
    LET job_id == deliv[d].job
    IN /\ deliv[d].pc = "exhausted"
       /\ IF job_id \in DOMAIN jobs
          THEN /\ jobs' = [jobs EXCEPT ![job_id].attempts = max_retries]
               /\ job_file' = save_jobs(jobs')
               /\ deliv' = [deliv EXCEPT ![d].pc = "done"]
          ELSE /\ jobs' = jobs
               /\ job_file' = job_file
               /\ deliv' = [deliv EXCEPT ![d].pc = "died"]
       /\ UNCHANGED <<worker, clock, hist, api_calls, rvars, avars>>

\* A give-up that turns the job itself into a failed one.
DeliverGiveUpFailingJob(d) ==
    LET job_id == deliv[d].job
    IN /\ deliv[d].pc = "exhausted"
       /\ IF job_id \in DOMAIN jobs
          THEN /\ jobs' = [jobs EXCEPT ![job_id].webhook_failed = TRUE,
                                       ![job_id].attempts = max_retries,
                                       ![job_id].status = "failed"]
               /\ job_file' = save_jobs(jobs')
               /\ deliv' = [deliv EXCEPT ![d].pc = "done"]
          ELSE /\ jobs' = jobs
               /\ job_file' = job_file
               /\ deliv' = [deliv EXCEPT ![d].pc = "died"]
       /\ UNCHANGED <<worker, clock, hist, api_calls, rvars, avars>>

\* _send_webhook after the loop (lines 190-193).  With the job record gone the
\* assignment raises KeyError and the thread dies.
DeliverGiveUp(d) ==
    LET job_id == deliv[d].job
    IN /\ deliv[d].pc = "exhausted"
       /\ IF job_id \in DOMAIN jobs
          THEN /\ jobs' = [jobs EXCEPT ![job_id].webhook_failed = TRUE,
                                       ![job_id].attempts = max_retries]
               /\ job_file' = save_jobs(jobs')
               /\ deliv' = [deliv EXCEPT ![d].pc = "done"]
          ELSE /\ jobs' = jobs
               /\ job_file' = job_file
               /\ deliv' = [deliv EXCEPT ![d].pc = "died"]
       /\ UNCHANGED <<worker, clock, hist, api_calls, rvars, avars>>

\* A get_job_status that answers for an unknown id with the view of a job
\* just created.
get_job_status_default(job_id) ==
    IF job_id \notin DOMAIN jobs
    THEN [status |-> "pending", result |-> Null, error |-> Null,
          webhook_delivered |-> FALSE]
    ELSE [status |-> jobs[job_id].status,
          result |-> jobs[job_id].result,
          error |-> jobs[job_id].error,
          webhook_delivered |-> jobs[job_id].webhook_delivered]

\* get_job_status(job_id): the view returned, None for an unknown id.
get_job_status(job_id) ==
    IF job_id \notin DOMAIN jobs
    THEN PyNone
    ELSE [status |-> jobs[job_id].status,
          result |-> jobs[job_id].result,
          error |-> jobs[job_id].error,
          webhook_delivered |-> jobs[job_id].webhook_delivered]

\* A reader polls GET /jobs/<job_id>, for any id: the table is only read.
GetJobStatus(job_id) ==
    /\ view' = [job_id |-> job_id, returned |-> get_job_status(job_id)]
    /\ UNCHANGED <<jvars, rvars, cvars, svars, kvars, sin, sout, swept, ct, st>>

\* Time passes.
Tick ==
    /\ clock < MaxTicks * TickHours
    /\ clock' = clock + TickHours
    /\ UNCHANGED <<jobs, job_file, worker, deliv, hist, api_calls, rvars, avars>>

\* cleanup_old_jobs(max_age_hours=48)
jobs_to_remove ==
    {j \in DOMAIN jobs : /\ jobs[j].status \in Terminal
                         /\ jobs[j].updated_at < clock - max_age_hours}

CleanupOldJobs ==
    /\ jobs_to_remove # {}
    /\ jobs' = [j \in DOMAIN jobs \ jobs_to_remove |-> jobs[j]]
    /\ job_file' = save_jobs(jobs')
    /\ UNCHANGED <<worker, deliv, clock, hist, api_calls, rvars, avars>>

\* The service as src/app.py drives it: POST /screenshot/async creates a job
\* and schedules it once (lines 509-522).
ScheduleOnce(job_id) ==
    /\ Scheduled(job_id) = 0
    /\ ProcessJobAsync(job_id)

Next ==
    \/ \E u \in BOOLEAN : CreateJob(u)
    \/ \E j \in JobIds : ScheduleOnce(j)
    \/ \E w \in Workers : WorkerProcessing(w)
    \/ \E w \in Workers, o \in Outcomes : WorkerExecute(w, o)
    \/ \E w \in Workers : WorkerFinish(w)
    \/ \E d \in Deliveries, r \in Responses : DeliverPost(d, r)
    \/ \E d \in Deliveries : DeliverGiveUp(d)
    \/ Tick
    \/ CleanupOldJobs

Spec == Init /\ [][Next]_vars

\* The same with its threads scheduled fairly: a started worker thread runs
\* on, the work function returns or raises, and every requests.post ends
\* (timeout=10, line 174).
Fairness ==
    /\ \A w \in Workers :
          /\ WF_vars(WorkerProcessing(w))
          /\ WF_vars(\E o \in Outcomes : WorkerExecute(w, o))
          /\ WF_vars(WorkerFinish(w))
    /\ \A d \in Deliveries :
          /\ WF_vars(\E r \in Responses : DeliverPost(d, r))
          /\ WF_vars(DeliverGiveUp(d))

SpecFair == Spec /\ Fairness

\* The same, with readers polling GET /jobs/<id> (lines 556-567) in between.
NextRead ==
    \/ Next
    \/ \E j \in JobIds : GetJobStatus(j)

SpecRead == Init /\ [][NextRead]_vars

\* The same service driven through WebhookService's state-changing methods
\* in any order: process_job_async any number of times for a job, and direct
\* calls of update_job_status and trigger_webhook.
ApiUpdateJobStatus(job_id, status, result, error) ==
    /\ api_calls < MaxApiCalls
    /\ update_job_status(job_id, status, result, error)
    /\ api_calls' = api_calls + 1
    /\ UNCHANGED <<worker, clock, rvars, avars>>

ApiTriggerWebhook(job_id) ==
    /\ api_calls < MaxApiCalls
    /\ trigger_webhook(job_id)
    /\ api_calls' = api_calls + 1
    /\ UNCHANGED <<jobs, job_file, worker, clock, hist, rvars, avars>>

\* The collaborators are kept simple here: the work function returns an
\* artifact or raises with a message, the webhook target answers 200 or 500.
ApiOutcomes == {o \in Outcomes : Truthy(o.value)}
ApiResponses == {"200", "500"}

NextAPI ==
    \/ \E u \in BOOLEAN : CreateJob(u)
    \/ \E j \in JobIds : ProcessJobAsync(j)
    \/ \E w \in Workers : WorkerProcessing(w)
    \/ \E w \in Workers, o \in ApiOutcomes : WorkerExecute(w, o)
    \/ \E w \in Workers : WorkerFinish(w)
    \/ \E d \in Deliveries, r \in ApiResponses : DeliverPost(d, r)
    \/ \E d \in Deliveries : DeliverGiveUp(d)
    \/ Tick
    \/ CleanupOldJobs
    \/ \E j \in JobIds, s \in Statuses, r \in ReturnValues, e \in {Null, "boom"} :
          ApiUpdateJobStatus(j, s, r, e)
    \/ \E j \in JobIds : ApiTriggerWebhook(j)

SpecAPI == Init /\ [][NextAPI]_vars

(***************************************************************************)
(* RateLimiter.                                                            *)
(***************************************************************************)
\* A cleanup in the manner of a fixed bucket: the window is emptied only
\* once its newest entry has expired.
DropOldWhenAllOld(q, cutoff) ==
    IF q # <<>> /\ q[Len(q)] < cutoff THEN <<>> ELSE q

\* One loop of _cleanup_old_requests: popleft while the head is older than
\* the cutoff.
RECURSIVE DropOld(_, _)
DropOld(q, cutoff) ==
    IF q # <<>> /\ Head(q) < cutoff THEN DropOld(Tail(q), cutoff) ELSE q

\* An off-by-one comparison against the limits.
WithinLimitsOffByOne(minute_count, hour_count) ==
    /\ ~(minute_count > requests_per_minute)
    /\ ~(hour_count > requests_per_hour)

\* check_rate_limit, lines 48-52: neither window is at capacity.
WithinLimits(minute_count, hour_count) ==
    /\ ~(minute_count >= requests_per_minute)
    /\ ~(hour_count >= requests_per_hour)

\* int(x) for x given in ticks: truncation toward zero, in seconds.
IntSeconds(x) ==
    IF x >= 0 THEN x \div TicksPerSec ELSE -((-x) \div TicksPerSec)

\* check_rate_limit, lines 39-42: read the time, clean both windows.
CheckBegin(t, api_key) ==
    /\ rl[t].pc = "idle"
    /\ checks < MaxChecks
    /\ checks' = checks + 1
    /\ minute_requests' = [minute_requests EXCEPT
                              ![api_key] = DropOld(@, now - Minute)]
    /\ hour_requests' = [hour_requests EXCEPT
                            ![api_key] = DropOld(@, now - Hour)]
    /\ rl' = [rl EXCEPT ![t] = [pc |-> "count", key |-> api_key,
                                current_time |-> now,
                                prior |-> admitted[api_key]]]
    /\ UNCHANGED <<now, last, admitted, advances, jvars, avars>>

\* check_rate_limit, lines 44-52: count, compare, return False when a
\* window is at capacity.
CheckCount(t) ==
    LET api_key == rl[t].key
        minute_count == Len(minute_requests[api_key])
        hour_count == Len(hour_requests[api_key])
    IN /\ rl[t].pc = "count"
       /\ IF WithinLimits(minute_count, hour_count)
          THEN /\ rl' = [rl EXCEPT ![t].pc = "append"]
               /\ last' = last
          ELSE /\ rl' = [rl EXCEPT ![t] = IdleThread]
               /\ last' = [op |-> "check", key |-> api_key,
                           time |-> rl[t].current_time, allowed |-> FALSE,
                           seconds |-> 0, prior |-> rl[t].prior,
                           remaining |-> NoRemaining]
       /\ UNCHANGED <<now, minute_requests, hour_requests, admitted,
                      advances, checks, jvars, avars>>

\* An admission that is recorded in the minute window only.
CheckAppendMinuteOnly(t) ==
    LET api_key == rl[t].key
        current_time == rl[t].current_time
    IN /\ rl[t].pc = "append"
       /\ minute_requests' = [minute_requests EXCEPT
                                 ![api_key] = Append(@, current_time)]
       /\ admitted' = [admitted EXCEPT ![api_key] = Append(@, current_time)]
       /\ rl' = [rl EXCEPT ![t] = IdleThread]
       /\ last' = [op |-> "check", key |-> api_key, time |-> current_time,
                   allowed |-> TRUE, seconds |-> 0, prior |-> rl[t].prior,
                   remaining |-> NoRemaining]
       /\ UNCHANGED <<now, hour_requests, advances, checks, jvars, avars>>

\* check_rate_limit, lines 55-58: record the request, return True.
CheckAppend(t) ==
    LET api_key == rl[t].key
        current_time == rl[t].current_time
    IN /\ rl[t].pc = "append"
       /\ minute_requests' = [minute_requests EXCEPT
                                 ![api_key] = Append(@, current_time)]
       /\ hour_requests' = [hour_requests EXCEPT
                               ![api_key] = Append(@, current_time)]
       /\ admitted' = [admitted EXCEPT ![api_key] = Append(@, current_time)]
       /\ rl' = [rl EXCEPT ![t] = IdleThread]
       /\ last' = [op |-> "check", key |-> api_key, time |-> current_time,
                   allowed |-> TRUE, seconds |-> 0, prior |-> rl[t].prior,
                   remaining |-> NoRemaining]
       /\ UNCHANGED <<now, advances, checks, jvars, avars>>

\* The wait without the added second.
retry_after_no_margin(minute_q, hour_q, current_time) ==
    IF Len(minute_q) >= requests_per_minute
    THEN IntSeconds(Minute - (current_time - Head(minute_q)))
    ELSE IF Len(hour_q) >= requests_per_hour
         THEN IntSeconds(Hour - (current_time - Head(hour_q)))
         ELSE 0

\* get_retry_after(api_key), lines 85-98, on the cleaned windows.
retry_after(minute_q, hour_q, current_time) ==
    IF Len(minute_q) >= requests_per_minute
    THEN IntSeconds(Minute - (current_time - Head(minute_q))) + 1
    ELSE IF Len(hour_q) >= requests_per_hour
         THEN IntSeconds(Hour - (current_time - Head(hour_q))) + 1
         ELSE 0

GetRetryAfter(t, api_key) ==
    LET minute_q == DropOld(minute_requests[api_key], now - Minute)
        hour_q == DropOld(hour_requests[api_key], now - Hour)
    IN /\ rl[t].pc = "idle"
       /\ minute_requests' = [minute_requests EXCEPT ![api_key] = minute_q]
       /\ hour_requests' = [hour_requests EXCEPT ![api_key] = hour_q]
       /\ last' = [op |-> "retry", key |-> api_key, time |-> now,
                   allowed |-> FALSE,
                   seconds |-> retry_after(minute_q, hour_q, now),
                   prior |-> admitted[api_key], remaining |-> NoRemaining]
       /\ UNCHANGED <<now, rl, admitted, advances, checks, jvars, avars>>

\* max(0, x)
Max0(x) == IF x > 0 THEN x ELSE 0

\* get_remaining_requests, lines 113-116: what the cleaned windows leave.
remaining_requests(minute_q, hour_q) ==
    [per_minute |-> Max0(requests_per_minute - Len(minute_q)),
     per_hour |-> Max0(requests_per_hour - Len(hour_q))]

\* A reading of the quota that also records a request.
GetRemainingRequestsRecording(t, api_key) ==
    LET minute_q == Append(DropOld(minute_requests[api_key], now - Minute), now)
        hour_q == Append(DropOld(hour_requests[api_key], now - Hour), now)
    IN /\ rl[t].pc = "idle"
       /\ minute_requests' = [minute_requests EXCEPT ![api_key] = minute_q]
       /\ hour_requests' = [hour_requests EXCEPT ![api_key] = hour_q]
       /\ last' = [op |-> "remaining", key |-> api_key, time |-> now,
                   allowed |-> FALSE, seconds |-> 0,
                   prior |-> admitted[api_key],
                   remaining |-> remaining_requests(minute_q, hour_q)]
       /\ UNCHANGED <<now, rl, admitted, advances, checks, jvars, avars>>

\* get_remaining_requests(api_key), lines 100-116: read the time, clean
\* both windows, report what is left of each.
GetRemainingRequests(t, api_key) ==
    LET minute_q == DropOld(minute_requests[api_key], now - Minute)
        hour_q == DropOld(hour_requests[api_key], now - Hour)
    IN /\ rl[t].pc = "idle"
       /\ minute_requests' = [minute_requests EXCEPT ![api_key] = minute_q]
       /\ hour_requests' = [hour_requests EXCEPT ![api_key] = hour_q]
       /\ last' = [op |-> "remaining", key |-> api_key, time |-> now,
                   allowed |-> FALSE, seconds |-> 0,
                   prior |-> admitted[api_key],
                   remaining |-> remaining_requests(minute_q, hour_q)]
       /\ UNCHANGED <<now, rl, admitted, advances, checks, jvars, avars>>

\* A reset that drops the hour window of the credential and leaves its
\* minute window.
ResetLimitsHourOnly(api_key) ==
    /\ \A t \in Threads : rl[t].pc = "idle"
    /\ minute_requests[api_key] # <<>> \/ hour_requests[api_key] # <<>>
    /\ hour_requests' = [hour_requests EXCEPT ![api_key] = <<>>]
    /\ admitted' = [admitted EXCEPT ![api_key] = <<>>]
    /\ last' = [op |-> "reset", key |-> api_key, time |-> now,
                allowed |-> FALSE, seconds |-> 0, prior |-> <<>>,
                remaining |-> NoRemaining]
    /\ UNCHANGED <<now, minute_requests, rl, advances, checks, jvars, avars>>

\* reset_limits(api_key): both windows of the credential are dropped, and
\* with them what had been admitted.
ResetLimits(api_key) ==
    /\ \A t \in Threads : rl[t].pc = "idle"
    /\ minute_requests[api_key] # <<>> \/ hour_requests[api_key] # <<>>
    /\ minute_requests' = [minute_requests EXCEPT ![api_key] = <<>>]
    /\ hour_requests' = [hour_requests EXCEPT ![api_key] = <<>>]
    /\ admitted' = [admitted EXCEPT ![api_key] = <<>>]
    /\ last' = [op |-> "reset", key |-> api_key, time |-> now,
                allowed |-> FALSE, seconds |-> 0, prior |-> <<>>,
                remaining |-> NoRemaining]
    /\ UNCHANGED <<now, rl, advances, checks, jvars, avars>>

\* Time passes.
Advance(dt) ==
    /\ advances < MaxAdvances
    /\ advances' = advances + 1
    /\ now' = now + dt
    /\ UNCHANGED <<minute_requests, hour_requests, rl, last, admitted,
                   checks, jvars, avars>>

\* Calls made one after the other.
NextRL ==
    \/ \E k \in Keys : CheckBegin(1, k)
    \/ CheckCount(1)
    \/ CheckAppend(1)
    \/ \E k \in Keys : GetRetryAfter(1, k)
    \/ \E k \in Keys : GetRemainingRequests(1, k)
    \/ \E k \in Keys : ResetLimits(k)
    \/ \E dt \in ClockSteps : Advance(dt)

SpecRL == Init /\ [][NextRL]_vars

\* Calls made from the server's request threads, which run
\* check_rate_limit without a lock (src/app.py line 72).
NextRLC ==
    \/ \E t \in Threads, k \in Keys : CheckBegin(t, k)
    \/ \E t \in Threads : CheckCount(t)
    \/ \E t \in Threads : CheckAppend(t)
    \/ \E t \in Threads, k \in Keys : GetRetryAfter(t, k)
    \/ \E t \in Threads, k \in Keys : GetRemainingRequests(t, k)
    \/ \E k \in Keys : ResetLimits(k)
    \/ \E dt \in ClockSteps : Advance(dt)

SpecRLC == Init /\ [][NextRLC]_vars

(***************************************************************************)
(* CacheService.                                                           *)
(***************************************************************************)
\* An expiry that already holds at the last instant of the duration.
ExpiredAtDuration(cache_entry, current_time) ==
    current_time >= fromisoformat(cache_entry.timestamp)
                        + timedelta(cache_duration_hours)

\* get_cached_screenshot, lines 93-96: datetime.now() > expiry_time.
Expired(cache_entry, current_time) ==
    current_time > fromisoformat(cache_entry.timestamp)
                       + timedelta(cache_duration_hours)

\* del self.cache_index[cache_key]
RemoveKey(index, cache_key) ==
    [c \in DOMAIN index \ {cache_key} |-> index[c]]

\* self.cache_index[cache_key] = cache_entry
SetKey(index, cache_key, cache_entry) ==
    [c \in DOMAIN index \cup {cache_key} |->
        IF c = cache_key THEN cache_entry ELSE index[c]]

\* Path.unlink(), the error of a missing file swallowed.
Unlink(files, path) == [f \in DOMAIN files \ {path} |-> files[f]]

\* shutil.copy2(source_path, cached_filepath)
Copy(files, path, content) ==
    [f \in DOMAIN files \cup {path} |->
        IF f = path THEN content ELSE files[f]]

\* A lookup that reports an expired entry as absent but leaves it in the
\* index.
get_cached_screenshot_keeping(index, files, cache_key, current_time) ==
    IF cache_key \notin DOMAIN index
    THEN [found |-> FALSE, path |-> NoPath, index |-> index, files |-> files]
    ELSE LET cache_entry == index[cache_key]
             cached_file == cache_entry.file_path
         IN IF cached_file \notin DOMAIN files
            THEN [found |-> FALSE, path |-> NoPath,
                  index |-> RemoveKey(index, cache_key), files |-> files]
            ELSE IF Expired(cache_entry, current_time)
                 THEN [found |-> FALSE, path |-> NoPath,
                       index |-> index, files |-> files]
                 ELSE [found |-> TRUE, path |-> cached_file,
                       index |-> index, files |-> files]

\* get_cached_screenshot(cache_key), lines 78-106: the value returned (found
\* is FALSE for None) and what is left of the index and of the files.
get_cached_screenshot(index, files, cache_key, current_time) ==
    IF cache_key \notin DOMAIN index
    THEN [found |-> FALSE, path |-> NoPath, index |-> index, files |-> files]
    ELSE LET cache_entry == index[cache_key]
             cached_file == cache_entry.file_path
         IN IF cached_file \notin DOMAIN files
            THEN [found |-> FALSE, path |-> NoPath,
                  index |-> RemoveKey(index, cache_key), files |-> files]
            ELSE IF Expired(cache_entry, current_time)
                 THEN [found |-> FALSE, path |-> NoPath,
                       index |-> RemoveKey(index, cache_key),
                       files |-> Unlink(files, cached_file)]
                 ELSE [found |-> TRUE, path |-> cached_file,
                       index |-> index, files |-> files]

\* A store that enters the artifact in the index before it copies it.
cache_screenshot_entry_first(index, files, cache_key, artifact, current_time, copied) ==
    LET source_path == artifact.path
        extension == source_path.suffix
        cached_filepath == FilePath("cache", cache_key, extension)
        entered == SetKey(index, cache_key,
                          [file_path |-> cached_filepath,
                           timestamp |-> isoformat(current_time),
                           original_path |-> source_path])
    IN IF copied
       THEN [stored |-> TRUE, path |-> cached_filepath, index |-> entered,
             files |-> Copy(files, cached_filepath, artifact.content)]
       ELSE [stored |-> FALSE, path |-> source_path,
             index |-> entered, files |-> files]

\* cache_screenshot(cache_key, screenshot_path), lines 119-146: the path
\* returned and what becomes of the index and of the files. When copy2
\* raises, the except branch returns the source path.
cache_screenshot(index, files, cache_key, artifact, current_time, copied) ==
    LET source_path == artifact.path
        extension == source_path.suffix
        cached_filepath == FilePath("cache", cache_key, extension)
    IN IF copied
       THEN [stored |-> TRUE, path |-> cached_filepath,
             index |-> SetKey(index, cache_key,
                              [file_path |-> cached_filepath,
                               timestamp |-> isoformat(current_time),
                               original_path |-> source_path]),
             files |-> Copy(files, cached_filepath, artifact.content)]
       ELSE [stored |-> FALSE, path |-> source_path,
             index |-> index, files |-> files]

\* What is kept of a call when the next one returns.
Brief(call) ==
    [op |-> call.op, key |-> call.key, found |-> call.found,
     time |-> call.time, content |-> call.content]

CacheCall(op, cache_key, found, path, content) ==
    [op |-> op, key |-> cache_key, found |-> found, path |-> path,
     time |-> now, content |-> content, pre_index |-> cache_index,
     pre_files |-> cache_files, prev |-> Brief(clast), count |-> 0]

CacheScreenshot(cache_key, artifact, copied) ==
    LET out == cache_screenshot(cache_index, cache_files, cache_key,
                                artifact, now, copied)
    IN /\ cache_calls < MaxCacheCalls
       /\ cache_calls' = cache_calls + 1
       /\ cache_index' = out.index
       /\ cache_index_file' = IF out.stored
                              THEN save_cache_index(out.index)
                              ELSE cache_index_file
       /\ cache_files' = out.files
       /\ clast' = CacheCall("store", cache_key, out.stored, out.path,
                             artifact.content)
       /\ UNCHANGED <<jvars, rvars, svars, kvars, xvars>>

GetCachedScreenshot(cache_key) ==
    LET out == get_cached_screenshot(cache_index, cache_files, cache_key, now)
    IN /\ cache_calls < MaxCacheCalls
       /\ cache_calls' = cache_calls + 1
       /\ cache_index' = out.index
       /\ cache_index_file' = IF out.index # cache_index
                              THEN save_cache_index(out.index)
                              ELSE cache_index_file
       /\ cache_files' = out.files
       /\ clast' = CacheCall("get", cache_key, out.found, out.path,
                             IF out.found THEN cache_files[out.path] ELSE "")
       /\ UNCHANGED <<jvars, rvars, svars, kvars, xvars>>

\* A sweep that takes every entry for expired.
expired_keys_all(index, current_time) == DOMAIN index

\* cleanup_expired_cache(), lines 150-172: the keys collected, the entries
\* and files removed, and their number returned (kept as count).
expired_keys(index, current_time) ==
    {c \in DOMAIN index : Expired(index[c], current_time)}

CleanupExpiredCache ==
    LET gone == expired_keys(cache_index, now)
    IN /\ cache_calls < MaxCacheCalls
       /\ cache_calls' = cache_calls + 1
       /\ cache_index' = [c \in DOMAIN cache_index \ gone |-> cache_index[c]]
       /\ cache_index_file' = IF gone # {}
                              THEN save_cache_index(cache_index')
                              ELSE cache_index_file
       /\ cache_files' =
              [f \in DOMAIN cache_files
                        \ {cache_index[c].file_path : c \in gone} |->
                  cache_files[f]]
       /\ clast' = [CacheCall("cleanup", "h1", FALSE, NoPath, "")
                        EXCEPT !.count = Cardinality(gone)]
       /\ UNCHANGED <<jvars, rvars, svars, kvars, xvars>>

\* clear_all_cache(), lines 176-185
ClearAllCache ==
    /\ cache_calls < MaxCacheCalls
    /\ cache_calls' = cache_calls + 1
    /\ cache_index' = <<>>
    /\ cache_index_file' = save_cache_index(cache_index')
    /\ cache_files' =
           [f \in DOMAIN cache_files
                     \ {cache_index[c].file_path : c \in DOMAIN cache_index}
               |-> cache_files[f]]
    /\ clast' = CacheCall("clear", "h1", FALSE, NoPath, "")
    /\ UNCHANGED <<jvars, rvars, svars, kvars, xvars>>

\* A file of the cache directory is removed from outside the service.
RemoveCacheFile(path) ==
    /\ path \in DOMAIN cache_files
    /\ cache_files' = Unlink(cache_files, path)
    /\ clast' = CacheCall("unlinked", "h1", FALSE, path, "")
    /\ UNCHANGED <<cache_index, cache_index_file, cache_calls, jvars, rvars, svars, kvars, xvars>>

\* CacheService methods called one after the other, while time passes and
\* files may disappear.
NextCache ==
    \/ \E h \in CacheKeys, artifact \in Artifacts, copied \in BOOLEAN :
           CacheScreenshot(h, artifact, copied)
    \/ \E h \in CacheKeys : GetCachedScreenshot(h)
    \/ CleanupExpiredCache
    \/ ClearAllCache
    \/ \E path \in DOMAIN cache_files : RemoveCacheFile(path)
    \/ \E dt \in CacheSteps : Advance(dt)

SpecCache == Init /\ [][NextCache]_vars

(***************************************************************************)
(* CacheService called from several request threads at once. The service   *)
(* holds no lock, so a thread may be preempted between any two statements  *)
(* of a method; each action below is one such stretch of statements.       *)
(***************************************************************************)
CacheThreadStart(t, op, cache_key) ==
    /\ ct[t].pc = "idle"
    /\ cache_calls < MaxCacheCalls
    /\ cache_calls' = cache_calls + 1

CacheThreadEnds(t, result) ==
    [ct EXCEPT ![t] = [@ EXCEPT !.pc = "idle", !.result = result]]

\* get_cached_screenshot, lines 79-80: cache_key not in self.cache_index
GetLookup(t, cache_key) ==
    /\ CacheThreadStart(t, "get", cache_key)
    /\ ct' = [ct EXCEPT ![t] =
                 [IdleCacheThread EXCEPT
                     !.op = "get", !.key = cache_key,
                     !.pc = IF cache_key \in DOMAIN cache_index
                            THEN "entry" ELSE "idle",
                     !.result = IF cache_key \in DOMAIN cache_index
                                THEN "none" ELSE "None"]]
    /\ UNCHANGED <<cache_index, cache_index_file, cache_files, clast, jvars,
                   rvars, svars, kvars, view, sin, sout, swept, st>>

\* line 82: cache_entry = self.cache_index[cache_key], a KeyError when the
\* key has gone since line 79.
GetEntry(t) ==
    /\ ct[t].pc = "entry"
    /\ ct' = IF ct[t].key \in DOMAIN cache_index
             THEN [ct EXCEPT ![t] = [@ EXCEPT !.pc = "exists",
                                         !.entry = cache_index[ct[t].key]]]
             ELSE CacheThreadEnds(t, "KeyError")
    /\ UNCHANGED <<cvars, jvars, rvars, svars, kvars, view, sin, sout, swept, st>>

\* lines 83-96 and 106: the file is looked for and the entry's age taken.
GetExists(t) ==
    /\ ct[t].pc = "exists"
    /\ ct' = IF ct[t].entry.file_path \notin DOMAIN cache_files
             THEN [ct EXCEPT ![t] = [@ EXCEPT !.pc = "del"]]
             ELSE IF Expired(ct[t].entry, now)
                  THEN [ct EXCEPT ![t] = [@ EXCEPT !.pc = "unlink"]]
                  ELSE CacheThreadEnds(t, "path")
    /\ UNCHANGED <<cvars, jvars, rvars, svars, kvars, view, sin, sout, swept, st>>

\* lines 98-101: cached_file.unlink(), its error swallowed.
GetUnlink(t) ==
    /\ ct[t].pc = "unlink"
    /\ cache_files' = Unlink(cache_files, ct[t].entry.file_path)
    /\ ct' = [ct EXCEPT ![t] = [@ EXCEPT !.pc = "del"]]
    /\ UNCHANGED <<cache_index, cache_index_file, clast, cache_calls, jvars,
                   rvars, svars, kvars, view, sin, sout, swept, st>>

\* lines 88-90 and 102-104: del self.cache_index[cache_key], a KeyError when
\* the key has gone; then the index is saved and None returned.
GetDel(t) ==
    /\ ct[t].pc = "del"
    /\ IF ct[t].key \in DOMAIN cache_index
       THEN /\ cache_index' = RemoveKey(cache_index, ct[t].key)
            /\ cache_index_file' = save_cache_index(cache_index')
            /\ ct' = CacheThreadEnds(t, "None")
       ELSE /\ ct' = CacheThreadEnds(t, "KeyError")
            /\ UNCHANGED <<cache_index, cache_index_file>>
    /\ UNCHANGED <<cache_files, clast, cache_calls, jvars, rvars, svars,
                   kvars, view, sin, sout, swept, st>>

\* cache_screenshot, lines 119-131: the artifact is copied into the cache
\* directory.
StoreCopy(t, cache_key, artifact) ==
    LET cached_filepath == FilePath("cache", cache_key, artifact.path.suffix)
    IN /\ CacheThreadStart(t, "store", cache_key)
       /\ cache_files' = Copy(cache_files, cached_filepath, artifact.content)
       /\ ct' = [ct EXCEPT ![t] =
                    [IdleCacheThread EXCEPT
                        !.op = "store", !.key = cache_key, !.pc = "index",
                        !.entry = [file_path |-> cached_filepath,
                                   timestamp |-> isoformat(now),
                                   original_path |-> artifact.path]]]
       /\ UNCHANGED <<cache_index, cache_index_file, clast, jvars, rvars,
                      svars, kvars, view, sin, sout, swept, st>>

\* lines 134-142: the entry is put in the index, stamped with the time of
\* this statement, and the index saved.
StoreIndex(t) ==
    /\ ct[t].pc = "index"
    /\ cache_index' = SetKey(cache_index, ct[t].key,
                             [ct[t].entry EXCEPT !.timestamp = isoformat(now)])
    /\ cache_index_file' = save_cache_index(cache_index')
    /\ ct' = CacheThreadEnds(t, "path")
    /\ UNCHANGED <<cache_files, clast, cache_calls, jvars, rvars, svars,
                   kvars, view, sin, sout, swept, st>>

\* cleanup_expired_cache, lines 150-153: the clock is read and the iteration
\* over self.cache_index.items() begins; the iterator remembers the size of
\* the dict.
CleanupBegin(t) ==
    /\ CacheThreadStart(t, "cleanup", "h1")
    /\ ct' = [ct EXCEPT ![t] =
                 [IdleCacheThread EXCEPT
                     !.op = "cleanup", !.pc = "scan", !.time = now,
                     !.size = Cardinality(DOMAIN cache_index),
                     !.todo = DOMAIN cache_index]]
    /\ UNCHANGED <<cache_index, cache_index_file, cache_files, clast, jvars,
                   rvars, svars, kvars, view, sin, sout, swept, st>>

\* One turn of the loop of lines 153-163. The iterator raises RuntimeError
\* when the dict has changed size since the loop began; otherwise it yields
\* a key not yet visited, whose file is unlinked when the entry is expired.
CleanupVisit(t) ==
    LET left == ct[t].todo \cap DOMAIN cache_index
    IN /\ ct[t].pc = "scan"
       /\ IF Cardinality(DOMAIN cache_index) # ct[t].size
          THEN /\ ct' = CacheThreadEnds(t, "RuntimeError")
               /\ UNCHANGED cache_files
          ELSE IF left = {}
               THEN /\ ct' = [ct EXCEPT ![t] = [@ EXCEPT !.pc = "delete"]]
                    /\ UNCHANGED cache_files
               ELSE \E c \in left :
                        LET cache_entry == cache_index[c]
                            old == Expired(cache_entry, ct[t].time)
                        IN /\ ct' = [ct EXCEPT ![t] =
                                  [@ EXCEPT !.todo = @ \ {c},
                                      !.expired = IF old THEN Append(@, c)
                                                  ELSE @]]
                           /\ cache_files' =
                                  IF old
                                  THEN Unlink(cache_files,
                                              cache_entry.file_path)
                                  ELSE cache_files
       /\ UNCHANGED <<cache_index, cache_index_file, clast, cache_calls,
                      jvars, rvars, svars, kvars, view, sin, sout, swept, st>>

\* lines 166-172: one del self.cache_index[key] of the second loop, a
\* KeyError when the key has gone; after the last one the index is saved
\* when a key was collected, and their number returned.
CleanupDelete(t) ==
    /\ ct[t].pc = "delete"
    /\ IF ct[t].expired = <<>>
       THEN /\ ct' = CacheThreadEnds(t, "count")
            /\ UNCHANGED <<cache_index, cache_index_file>>
       ELSE IF Head(ct[t].expired) \in DOMAIN cache_index
            THEN /\ cache_index' = RemoveKey(cache_index, Head(ct[t].expired))
                 /\ ct' = [ct EXCEPT ![t] =
                              [@ EXCEPT !.expired = Tail(@)]]
                 /\ cache_index_file' =
                        IF Len(ct[t].expired) = 1
                        THEN save_cache_index(cache_index')
                        ELSE cache_index_file
            ELSE /\ ct' = CacheThreadEnds(t, "KeyError")
                 /\ UNCHANGED <<cache_index, cache_index_file>>
    /\ UNCHANGED <<cache_files, clast, cache_calls, jvars, rvars, svars,
                   kvars, view, sin, sout, swept, st>>

NextCacheC ==
    \/ \E t \in Threads, h \in CacheKeys : GetLookup(t, h)
    \/ \E t \in Threads : GetEntry(t)
    \/ \E t \in Threads : GetExists(t)
    \/ \E t \in Threads : GetUnlink(t)
    \/ \E t \in Threads : GetDel(t)
    \/ \E t \in Threads, h \in CacheKeys, artifact \in Artifacts :
           StoreCopy(t, h, artifact)
    \/ \E t \in Threads : StoreIndex(t)
    \/ \E t \in Threads : CleanupBegin(t)
    \/ \E t \in Threads : CleanupVisit(t)
    \/ \E t \in Threads : CleanupDelete(t)
    \/ \E dt \in CacheSteps : Advance(dt)

SpecCacheC == Init /\ [][NextCacheC]_vars

(***************************************************************************)
(* The cache key of a /screenshot request.                                 *)
(***************************************************************************)
Pipe == <<"|">>

\* f"{a}|{b}|...": the formatted values with a "|" between neighbours.
RECURSIVE Joined(_)
Joined(values) ==
    IF Len(values) = 1
    THEN str(values[1])
    ELSE str(values[1]) \o Pipe \o Joined(Tail(values))

\* generate_cache_key, line 63: the string that is hashed.
key_string(url, width, height, fullpage, image_format, quality, delay) ==
    Joined(<<url, width, height, fullpage, image_format, quality, delay>>)

\* generate_cache_key(url, width, height, fullpage, image_format, quality,
\* delay), lines 63-66.
generate_cache_key(url, width, height, fullpage, image_format, quality, delay) ==
    sha256(key_string(url, width, height, fullpage, image_format, quality,
                      delay))

\* src/app.py line 255
cache_params(p) ==
    Joined(<<p.selector, p.device, p.user_agent, p.dark_mode,
             p.wait_for_selector, p.block_ads, p.scroll_page, p.media_type,
             p.timezone>>)

\* src/app.py lines 256-259: f"{cache_key}|{cache_params}", the digest of
\* the first hash being one piece of the string.
pre_hash(p) ==
    <<generate_cache_key(p.url, p.width, p.height, p.fullpage,
                         p.image_format, p.quality, p.delay)>>
        \o Pipe \o cache_params(p)

cache_key(p) == sha256(pre_hash(p))

\* The parameters that enter the key, and values they can take besides
\* their defaults.
OptionalTexts == {"selector", "device", "user_agent", "wait_for_selector",
                  "media_type", "timezone"}
TextValues == {PyStr(<<"a">>), PyStr(<<"a", "|", "a">>), PyStr(<<"None">>)}
KeyChanges ==
    (OptionalTexts \X TextValues)
    \cup {<<"url", PyStr(<<"http://b">>)>>,
          <<"width", PyInt(1280)>>, <<"height", PyInt(720)>>,
          <<"quality", PyInt(90)>>, <<"delay", PyInt(1)>>,
          <<"fullpage", PyBool(TRUE)>>, <<"dark_mode", PyBool(TRUE)>>,
          <<"block_ads", PyBool(TRUE)>>, <<"scroll_page", PyBool(TRUE)>>,
          <<"image_format", PyStr(<<"jpeg">>)>>,
          <<"image_format", PyStr(<<"pdf">>)>>}

Changed(p, change) == [p EXCEPT ![change[1]] = change[2]]

\* Requests that differ from the defaults in at most two parameters.
ParamTuples ==
    {DefaultParams}
    \cup {Changed(DefaultParams, c) : c \in KeyChanges}
    \cup {Changed(Changed(DefaultParams, c), d) : c, d \in KeyChanges}

\* The key strings of both requests are computed.
Fingerprint ==
    /\ kout = NoKeys
    /\ kout' = <<pre_hash(kin[1]), pre_hash(kin[2])>>
    /\ UNCHANGED <<kin, jvars, rvars, cvars, svars, xvars>>

InitKey ==
    /\ Services
    /\ kin \in ParamTuples \X ParamTuples
    /\ kout = NoKeys
    /\ sin = NoSignatures
    /\ sout = NoSignatures

NextKey == Fingerprint

SpecKey == InitKey /\ [][NextKey]_vars

(***************************************************************************)
(* The /screenshot handler of src/app.py.                                  *)
(***************************************************************************)
\* URLs that start with http:// or https://, and the accepted formats.
HttpUrls == {"http://a", "http://b"}
Formats == {"png", "jpeg", "jpg", "pdf"}

\* Lines 211-252: the checks that answer 400.
Valid(p) ==
    /\ p.url.t = "str" /\ p.url.v # <<>>
    /\ p.url.v[1] \in HttpUrls
    /\ p.image_format.v \in {<<f>> : f \in Formats}
    /\ ~(p.width.v < 100 \/ p.width.v > 3840
           \/ p.height.v < 100 \/ p.height.v > 2160)
    /\ ~(p.quality.v < 1 \/ p.quality.v > 100)

\* Lines 235-236: jpg is jpeg.
Normalized(p) ==
    IF p.image_format.v = <<"jpg">>
    THEN [p EXCEPT !.image_format = PyStr(<<"jpeg">>)]
    ELSE p

\* What the capture call is given, lines 277-310: capture_pdf receives the
\* url, the viewport, fullpage and the headers; capture_screenshot every
\* parameter.
CaptureArgs(p) ==
    IF p.image_format.v = <<"pdf">>
    THEN [DefaultParams EXCEPT !.url = p.url, !.width = p.width,
                               !.height = p.height, !.fullpage = p.fullpage,
                               !.extra_headers = p.extra_headers,
                               !.image_format = p.image_format]
    ELSE p

\* The file a capture leaves: screenshots/screenshot_<timestamp>.<format>,
\* showing what the capture was asked for.
Captured(p, current_time) ==
    [path |-> FilePath("screenshots", <<"screenshot_", current_time>>,
                       <<".">> \o str(p.image_format)),
     content |-> CaptureArgs(p)]

\* The requests made: the defaults, the defaults with a script to run, a
\* PDF, and a format that is refused.
SyncRequests ==
    {DefaultParams,
     [DefaultParams EXCEPT !.custom_script = PyStr(<<"s">>)],
     [DefaultParams EXCEPT !.image_format = PyStr(<<"pdf">>)],
     [DefaultParams EXCEPT !.image_format = PyStr(<<"gif">>)]}

\* The credential that makes the requests, and what can become of a
\* capture: it raises, or it returns and the copy into the cache succeeds
\* or fails.
SyncKeys == {"k1"}
CaptureOutcomes ==
    {[raised |-> TRUE, copied |-> FALSE], [raised |-> FALSE, copied |-> TRUE],
     [raised |-> FALSE, copied |-> FALSE]}

\* Lines 254-259 for each of the requests made, computed once.
KeyTable == [q \in {Normalized(r) : r \in SyncRequests} |-> cache_key(q)]
KeyOf(p) == KeyTable[p]

\* A handler that captures whatever the cache holds.
screenshot_always_capturing(index, files, p, raised, copied, current_time) ==
    LET got == get_cached_screenshot(index, files, KeyOf(p), current_time)
        artifact == Captured(p, current_time)
        put == cache_screenshot(got.index, got.files, KeyOf(p), artifact,
                                current_time, copied)
    IN IF raised
       THEN [status |-> 500, served |-> "none", captures |-> 1,
             stored |-> FALSE, content |-> NoParams,
             index |-> got.index, files |-> got.files]
       ELSE [status |-> 200, served |-> "capture", captures |-> 1,
             stored |-> put.stored, content |-> artifact.content,
             index |-> put.index, files |-> put.files]

\* Lines 254-336 for valid parameters p: the lookup, and on a miss the
\* capture (which may raise) and the store (whose copy may fail).
screenshot(index, files, p, raised, copied, current_time) ==
    LET got == get_cached_screenshot(index, files, KeyOf(p), current_time)
        artifact == Captured(p, current_time)
        put == cache_screenshot(got.index, got.files, KeyOf(p), artifact,
                                current_time, copied)
    IN IF got.found
       THEN [status |-> 200, served |-> "cache", captures |-> 0,
             stored |-> FALSE, content |-> files[got.path],
             index |-> got.index, files |-> got.files]
       ELSE IF raised
            THEN [status |-> 500, served |-> "none", captures |-> 1,
                  stored |-> FALSE, content |-> NoParams,
                  index |-> got.index, files |-> got.files]
            ELSE [status |-> 200, served |-> "capture", captures |-> 1,
                  stored |-> put.stored, content |-> artifact.content,
                  index |-> put.index, files |-> put.files]

\* Lines 325-328: the headers of the response that serves the capture.
RateLimitHeaders(remaining) ==
    [present |-> TRUE, minute |-> str(PyInt(remaining.per_minute)),
     hour |-> str(PyInt(remaining.per_hour))]

\* What was stored under the key of p by the request that captured it.
OriginOf(p) ==
    IF KeyOf(p) \in DOMAIN origin THEN origin[KeyOf(p)] ELSE NoOrigin

\* The time that passes inside a refused request between the clock read of
\* check_rate_limit (line 72) and that of get_retry_after (line 77), with
\* log_request in between: none that the clock shows, or one tick.
Elapsed == {0, 1}

\* An admission that takes a slot of the minute window only.
require_api_key_minute_only(api_key, elapsed) ==
    LET minute_q == DropOld(minute_requests[api_key], now - Minute)
        hour_q == DropOld(hour_requests[api_key], now - Hour)
        current_time == now + elapsed
        late_minute == DropOld(minute_q, current_time - Minute)
        late_hour == DropOld(hour_q, current_time - Hour)
    IN IF WithinLimits(Len(minute_q), Len(hour_q))
       THEN [allowed |-> TRUE, time |-> now,
             minute |-> Append(minute_q, now),
             hour |-> hour_q, retry_after |-> 0]
       ELSE [allowed |-> FALSE, time |-> current_time,
             minute |-> late_minute, hour |-> late_hour,
             retry_after |-> retry_after(late_minute, late_hour,
                                         current_time)]

\* require_api_key (lines 71-80) for a valid credential: check_rate_limit,
\* and when it refuses, get_retry_after at its own reading of the clock.
\* The windows are returned as the calls leave them.
require_api_key(api_key, elapsed) ==
    LET minute_q == DropOld(minute_requests[api_key], now - Minute)
        hour_q == DropOld(hour_requests[api_key], now - Hour)
        current_time == now + elapsed
        late_minute == DropOld(minute_q, current_time - Minute)
        late_hour == DropOld(hour_q, current_time - Hour)
    IN IF WithinLimits(Len(minute_q), Len(hour_q))
       THEN [allowed |-> TRUE, time |-> now,
             minute |-> Append(minute_q, now),
             hour |-> Append(hour_q, now), retry_after |-> 0]
       ELSE [allowed |-> FALSE, time |-> current_time,
             minute |-> late_minute, hour |-> late_hour,
             retry_after |-> retry_after(late_minute, late_hour,
                                         current_time)]

\* What a request leaves of the limiter: the windows of its credential, the
\* record of what was admitted, and the clock as the request last read it.
Admission(api_key, adm) ==
    /\ minute_requests' = [minute_requests EXCEPT ![api_key] = adm.minute]
    /\ hour_requests' = [hour_requests EXCEPT ![api_key] = adm.hour]
    /\ admitted' = [admitted EXCEPT ![api_key] =
                       IF adm.allowed THEN Append(@, now) ELSE @]
    /\ now' = adm.time

\* One request to /screenshot with a valid credential: require_api_key
\* (lines 71-80) and then the handler (lines 157-336).
Screenshot(api_key, params, outcome) ==
    \E elapsed \in Elapsed :
       LET adm == require_api_key(api_key, elapsed)
           p == Normalized(params)
           out == screenshot(cache_index, cache_files, p, outcome.raised,
                             outcome.copied, now)
           remaining == remaining_requests(adm.minute, adm.hour)
           answer == [NoResponse EXCEPT !.params = params, !.time = now]
       IN /\ requests < MaxRequests
          /\ requests' = requests + 1
          /\ adm.allowed => elapsed = 0
          /\ Admission(api_key, adm)
          /\ IF ~adm.allowed
             THEN /\ response' = [answer EXCEPT !.status = 429,
                                      !.retry_after = adm.retry_after]
                  /\ UNCHANGED <<cache_index, cache_index_file, cache_files,
                                 origin>>
             ELSE IF ~Valid(params)
                  THEN /\ response' = [answer EXCEPT !.status = 400]
                       /\ UNCHANGED <<cache_index, cache_index_file,
                                      cache_files, origin>>
                  ELSE /\ response' =
                              [answer EXCEPT
                                  !.status = out.status,
                                  !.served = out.served,
                                  !.captures = out.captures,
                                  !.stored = out.stored,
                                  !.content = out.content,
                                  !.params = p,
                                  !.before = OriginOf(p),
                                  !.headers =
                                      IF out.served = "capture"
                                      THEN RateLimitHeaders(remaining)
                                      ELSE NoHeaders]
                       /\ cache_index' = out.index
                       /\ cache_index_file' =
                              IF out.index # cache_index
                              THEN save_cache_index(out.index)
                              ELSE cache_index_file
                       /\ cache_files' = out.files
                       /\ origin' =
                              IF out.stored
                              THEN SetKey(origin, KeyOf(p),
                                          [stored |-> TRUE, params |-> p,
                                           time |-> now])
                              ELSE origin
          /\ UNCHANGED <<rl, last, advances, checks, jvars, clast,
                         cache_calls, kvars, xvars>>

\* Requests handled one after the other, while time passes.
NextSync ==
    \/ \E k \in SyncKeys, p \in SyncRequests, outcome \in CaptureOutcomes :
           Screenshot(k, p, outcome)
    \/ \E dt \in CacheSteps : Advance(dt)

SpecSync == Init /\ [][NextSync]_vars

\* The url of the body of an asynchronous request: missing, or given.
AsyncUrls == {Null, "http://a"}

\* One request to /screenshot/async with a valid credential: require_api_key
\* (lines 71-80) and then the handler (lines 493-538): without a url 400,
\* otherwise create_job, process_job_async and 202.  Neither the format of
\* the url nor the cache is looked at.
ScreenshotAsync(api_key, url, webhook_url) ==
    \E elapsed \in Elapsed :
       LET adm == require_api_key(api_key, elapsed)
           answer == [NoResponse EXCEPT !.time = now]
           job_id == CHOOSE j \in FreshIds : \A k \in FreshIds : j <= k
       IN /\ requests < MaxRequests
          /\ requests' = requests + 1
          /\ adm.allowed => elapsed = 0
          /\ Admission(api_key, adm)
          /\ IF ~adm.allowed
             THEN /\ response' = [answer EXCEPT !.status = 429,
                                      !.retry_after = adm.retry_after]
                  /\ UNCHANGED <<jobs, job_file, hist, worker>>
             ELSE IF ~Truthy(url)
                  THEN /\ response' = [answer EXCEPT !.status = 400]
                       /\ UNCHANGED <<jobs, job_file, hist, worker>>
                  ELSE /\ FreshIds # {}
                       /\ FreeSlots(worker) # {}
                       /\ jobs' = [j \in DOMAIN jobs \cup {job_id} |->
                                      IF j = job_id
                                      THEN NewJob(webhook_url) ELSE jobs[j]]
                       /\ hist' = [hist EXCEPT ![job_id] = <<"pending">>]
                       /\ job_file' = save_jobs(jobs')
                       /\ worker' = [worker EXCEPT ![NextSlot(worker)] =
                                        [FreeWorker EXCEPT !.job = job_id,
                                                           !.pc = "start"]]
                       /\ response' = [answer EXCEPT !.status = 202]
          /\ UNCHANGED <<deliv, clock, api_calls, rl, last, advances, checks,
                         cvars, origin, kvars, xvars>>

\* Requests to both routes handled one after the other, while the clock
\* moves by the steps that matter to the limiter.  The worker threads that
\* the asynchronous requests start are not followed here.
NextAdmit ==
    \/ \E k \in SyncKeys, p \in SyncRequests, outcome \in CaptureOutcomes :
           Screenshot(k, p, outcome)
    \/ \E k \in SyncKeys, url \in AsyncUrls, u \in BOOLEAN :
           ScreenshotAsync(k, url, u)
    \/ \E dt \in ClockSteps : Advance(dt)

SpecAdmit == Init /\ [][NextAdmit]_vars

(***************************************************************************)
(* The process killed and started again over the two files.                *)
(***************************************************************************)
\* What an earlier run may have left in the directory beside a finished
\* job: a cached capture.
OldEntry ==
    [file_path |-> FilePath("cache", "h1", ".png"),
     timestamp |-> isoformat(0),
     original_path |-> FilePath("screenshots", "s1", ".png")]
OldIndex == [c \in {"h1"} |-> OldEntry]
JobFiles == {NoFile, Unreadable, Written(<<>>), Written(OldJobs)}
IndexFiles == {NoFile, Unreadable, Written(<<>>), Written(OldIndex)}

\* The services constructed (src/app.py lines 31-37) over a directory that
\* holds the files of an earlier run: each constructor loads its file.
InitDisk ==
    /\ job_file \in JobFiles
    /\ cache_index_file \in IndexFiles
    /\ jobs = load_jobs(job_file)
    /\ worker = [w \in Workers |-> FreeWorker]
    /\ deliv = [d \in Deliveries |-> FreeDelivery]
    /\ clock = 0
    /\ hist = [j \in JobIds |->
                  IF job_file = Written(OldJobs) /\ j \in DOMAIN OldJobs
                  THEN <<"pending", "processing", "completed">> ELSE <<>>]
    /\ api_calls = 0
    /\ RLInit
    /\ cache_index = load_cache_index(cache_index_file)
    /\ cache_files = IF cache_index_file = Written(OldIndex)
                     THEN [f \in {OldEntry.file_path} |-> "A"] ELSE <<>>
    /\ clast = NoCacheCall
    /\ cache_calls = 0
    /\ HandlerInit
    /\ kin = <<NoParams, NoParams>>
    /\ kout = NoKeys
    /\ view = NoView
    /\ swept = NoSweep
    /\ ct = [t \in Threads |-> IdleCacheThread]
    /\ st = [t \in Threads |-> IdleSaver]
    /\ sin = NoSignatures
    /\ sout = NoSignatures

\* The process is killed, its tables are gone and its threads end where they
\* are, and it is started again (src/app.py lines 31-37): both constructors
\* load their files, and neither lets an exception of the load escape.
Killed(thread) ==
    IF thread.pc \in {"free", "done", "died"}
    THEN thread ELSE [thread EXCEPT !.pc = "killed"]

Restarted(jobs_text, index_text) ==
    /\ jobs' = load_jobs(jobs_text)
    /\ cache_index' = load_cache_index(index_text)
    /\ worker' = [w \in Workers |-> Killed(worker[w])]
    /\ deliv' = [d \in Deliveries |-> Killed(deliv[d])]

\* Where inside `with open(file, 'w') as f: json.dump(table, f)` the kill
\* falls: before open() has truncated the file, between open() and the end of
\* json.dump, or after the whole text is out.
SavePoints == {"before open", "writing", "written"}
KilledFile(file, table, point) ==
    CASE point = "before open" -> file
      [] point = "writing" -> Unreadable
      [] point = "written" -> Written(table)

\* create_job killed inside save_jobs (line 76), and the process restarted.
CreateJobKilled(webhook_url, point) ==
    /\ FreshIds # {}
    /\ LET job_id == CHOOSE j \in FreshIds : \A k \in FreshIds : j <= k
           table == [j \in DOMAIN jobs \cup {job_id} |->
                        IF j = job_id THEN NewJob(webhook_url) ELSE jobs[j]]
       IN /\ hist' = [hist EXCEPT ![job_id] = <<"pending">>]
          /\ job_file' = KilledFile(job_file, table, point)
          /\ Restarted(KilledFile(job_file, table, point), cache_index_file)
    /\ UNCHANGED <<clock, api_calls, cache_index_file, cache_files, clast,
                   cache_calls, rvars, svars, kvars, xvars>>

\* The worker's update_job_status(job_id, 'processing') killed inside
\* save_jobs (line 102), and the process restarted.
WorkerProcessingKilled(w, point) ==
    LET job_id == worker[w].job
        table == [jobs EXCEPT ![job_id] =
                     UpdatedJob(@, "processing", Null, Null)]
    IN /\ worker[w].pc = "start"
       /\ job_id \in DOMAIN jobs
       /\ hist' = [hist EXCEPT ![job_id] =
                      IF jobs[job_id].status = "processing"
                      THEN @ ELSE Append(@, "processing")]
       /\ job_file' = KilledFile(job_file, table, point)
       /\ Restarted(KilledFile(job_file, table, point), cache_index_file)
       /\ UNCHANGED <<clock, api_calls, cache_index_file, cache_files, clast,
                      cache_calls, rvars, svars, kvars, xvars>>

\* cache_screenshot killed inside _save_cache_index (line 140), the copy
\* already made, and the process restarted.
CacheScreenshotKilled(key, artifact, point) ==
    LET out == cache_screenshot(cache_index, cache_files, key,
                                artifact, now, TRUE)
    IN /\ cache_calls < MaxCacheCalls
       /\ cache_calls' = cache_calls + 1
       /\ cache_files' = out.files
       /\ cache_index_file' = KilledFile(cache_index_file, out.index, point)
       /\ Restarted(job_file,
                    KilledFile(cache_index_file, out.index, point))
       /\ UNCHANGED <<job_file, clock, hist, api_calls, clast, rvars, svars,
                      kvars, xvars>>

\* The capture and the key used here.
DiskOutcome == [kind |-> "return", value |-> "artifact"]
DiskArtifact == [path |-> FilePath("screenshots", "s2", ".pdf"), content |-> "B"]
DiskKey == "h2"

\* The process used, killed inside a save, and started again.
NextDisk ==
    \/ CreateJob(FALSE)
    \/ \E j \in JobIds : ScheduleOnce(j)
    \/ \E w \in Workers : WorkerProcessing(w)
    \/ \E w \in Workers : WorkerExecute(w, DiskOutcome)
    \/ \E w \in Workers : WorkerFinish(w)
    \/ \E j \in JobIds : GetJobStatus(j)
    \/ CacheScreenshot(DiskKey, DiskArtifact, TRUE)
    \/ \E h \in CacheKeys : GetCachedScreenshot(h)
    \/ \E point \in SavePoints : CreateJobKilled(FALSE, point)
    \/ \E w \in Workers, point \in SavePoints :
           WorkerProcessingKilled(w, point)
    \/ \E point \in SavePoints :
           CacheScreenshotKilled(DiskKey, DiskArtifact, point)

SpecDisk == InitDisk /\ [][NextDisk]_vars

(***************************************************************************)
(* cleanup_old_jobs called on tables of any content.                       *)
(***************************************************************************)
\* A sweep that removes every old job, whatever its status.
cleanup_old_jobs_any_status(table, current_time, max_age) ==
    LET to_remove == {j \in DOMAIN table :
                         table[j].updated_at < current_time - max_age}
    IN [jobs |-> [j \in DOMAIN table \ to_remove |-> table[j]],
        saved |-> to_remove # {},
        returned |-> Cardinality(to_remove)]

\* cleanup_old_jobs(max_age_hours), lines 291-306: the table left, whether
\* save_jobs is called, and the number returned.
cleanup_old_jobs(table, current_time, max_age) ==
    LET to_remove == {j \in DOMAIN table :
                         /\ table[j].status \in Terminal
                         /\ table[j].updated_at < current_time - max_age}
    IN [jobs |-> [j \in DOMAIN table \ to_remove |-> table[j]],
        saved |-> to_remove # {},
        returned |-> Cardinality(to_remove)]

\* A call of cleanup_old_jobs, the value it returns kept.
CallCleanupOldJobs(max_age) ==
    LET out == cleanup_old_jobs(jobs, clock, max_age)
    IN /\ jobs' = out.jobs
       /\ job_file' = IF out.saved THEN save_jobs(out.jobs) ELSE job_file
       /\ swept' = [returned |-> out.returned, before |-> jobs,
                    max_age |-> max_age, time |-> clock]
       /\ UNCHANGED <<worker, deliv, clock, hist, api_calls, rvars, cvars,
                      svars, kvars, view, sin, sout, ct, st>>

\* The tables swept: up to two jobs, each in any status, last updated in one
\* of the first hours; and the ages asked for.
SweepIds == {1, 2}
SweepTimes == {0, 1, 2}
SweepAges == {max_age_hours - 1, max_age_hours}
SweepJob(status, updated_at) ==
    [OldJob EXCEPT !.status = status, !.updated_at = updated_at,
                   !.result = IF status = "completed" THEN "artifact" ELSE Null,
                   !.error = IF status = "failed" THEN "boom" ELSE Null]
SweepJobs == {SweepJob(s, t) : s \in Statuses, t \in SweepTimes}
SweepTables ==
    {<<>>} \cup [{1} -> SweepJobs] \cup [SweepIds -> SweepJobs]

\* The statuses a job in the given status has held.
Life(status) ==
    CASE status = "pending" -> <<"pending">>
      [] status = "processing" -> <<"pending", "processing">>
      [] OTHER -> <<"pending", "processing", status>>

\* A service that holds one of the tables, saved.
InitSweep ==
    /\ jobs \in SweepTables
    /\ job_file = save_jobs(jobs)
    /\ cache_index_file = NoFile
    /\ view = NoView
    /\ swept = NoSweep
    /\ ct = [t \in Threads |-> IdleCacheThread]
    /\ st = [t \in Threads |-> IdleSaver]
    /\ worker = [w \in Workers |-> FreeWorker]
    /\ deliv = [d \in Deliveries |-> FreeDelivery]
    /\ clock = 0
    /\ hist = [j \in JobIds \cup SweepIds |->
                  IF j \in DOMAIN jobs THEN Life(jobs[j].status) ELSE <<>>]
    /\ api_calls = 0
    /\ RLInit
    /\ CacheInit
    /\ HandlerInit
    /\ kin = <<NoParams, NoParams>>
    /\ kout = NoKeys
    /\ sin = NoSignatures
    /\ sout = NoSignatures

NextSweep ==
    \/ \E max_age \in SweepAges : CallCleanupOldJobs(max_age)
    \/ Tick

SpecSweep == InitSweep /\ [][NextSweep]_vars

(***************************************************************************)
(* Webhook signatures.                                                     *)
(***************************************************************************)
\* A str and a bytes value are sequences of characters and of bytes.  The
\* characters used: ASCII ones, the NUL character and one outside ASCII.
Nul == "\\0"
NonAscii == "e-acute"

\* str.encode(): UTF-8, one byte for an ASCII character, two for the other.
Utf8(ch) ==
    CASE ch = Nul -> <<"00">>
      [] ch = NonAscii -> <<"c3", "a9">>
      [] OTHER -> <<ch>>

RECURSIVE encode(_)
encode(s) == IF s = <<>> THEN <<>> ELSE Utf8(Head(s)) \o encode(Tail(s))

\* json.dumps(payload, sort_keys=True): the members in the order of their
\* keys, whatever the order they were inserted in.  A payload is the sequence
\* of its members in insertion order.
KeyRank == [job_id |-> 1, status |-> 2]
ByKey(a, b) == KeyRank[a.k] < KeyRank[b.k]

RECURSIVE Members(_)
Members(pairs) ==
    IF pairs = <<>>
    THEN <<>>
    ELSE <<Head(pairs).k, ":", Head(pairs).v, ",">> \o Members(Tail(pairs))

dumps_sorted(payload) == <<"{">> \o Members(SortSeq(payload, ByKey)) \o <<"}">>

\* hmac.new(key, msg, hashlib.sha256): a key shorter than the block of the
\* hash is filled up with zero bytes to the block's length (RFC 2104); the
\* digest is taken to differ whenever the filled key or the message does.
block_size == 64

RECURSIVE Zeros(_)
Zeros(n) == IF n = 0 THEN <<>> ELSE <<"00">> \o Zeros(n - 1)

hmac_new(key, msg) == key \o Zeros(block_size - Len(key)) \o msg

\* .hexdigest(): lowercase hexadecimal digits, all ASCII.
hexdigest(digest) == <<"hex">> \o digest

\* _generate_signature(payload, secret), lines 206-212
generate_signature(payload, secret) ==
    hexdigest(hmac_new(encode(secret), encode(dumps_sorted(payload))))

\* hmac.compare_digest(a, b) of two str: TypeError unless both are ASCII.
IsAscii(s) == \A i \in DOMAIN s : s[i] # NonAscii
compare_digest(a, b) ==
    IF ~IsAscii(a) \/ ~IsAscii(b)
    THEN "TypeError"
    ELSE IF a = b THEN "True" ELSE "False"

\* verify_webhook_signature(payload, signature, secret), lines 226-227
verify_webhook_signature(payload, signature, secret) ==
    compare_digest(signature, generate_signature(payload, secret))

\* Payloads of one or two members, secrets, and the signatures a receiver
\* may be handed: one computed for another payload and secret, or a text
\* from elsewhere.
PayloadKeys == {"job_id", "status"}
PayloadValues == {"completed", "failed"}
Member == [k : PayloadKeys, v : PayloadValues]
Payloads ==
    {<<a>> : a \in Member}
        \cup {s \in Member \X Member : s[1].k # s[2].k}
Secrets == {<<"s">>, <<"s", Nul>>, <<"t">>}
Given == {"computed", "wrong_signature", NonAscii}
SigInputs ==
    [payload : Payloads, secret : Secrets, other_payload : Payloads,
     other_secret : Secrets, given : Given]

\* The signature string handed to the receiver.
Handed(in) ==
    IF in.given = "computed"
    THEN generate_signature(in.other_payload, in.other_secret)
    ELSE <<in.given>>

\* The receiver verifies the sender's own signature and the one handed in.
VerifyWebhookSignature ==
    /\ sout = NoSignatures
    /\ sout' =
           [own |-> verify_webhook_signature(
                        sin.payload,
                        generate_signature(sin.payload, sin.secret),
                        sin.secret),
            other |-> verify_webhook_signature(sin.payload, Handed(sin),
                                               sin.secret)]
    /\ UNCHANGED <<sin, view, swept, ct, st, jvars, rvars, cvars, svars, kvars>>

InitSig ==
    /\ Services
    /\ kin = <<NoParams, NoParams>>
    /\ kout = NoKeys
    /\ sin \in SigInputs
    /\ sout = NoSignatures

NextSig == VerifyWebhookSignature

SpecSig == InitSig /\ [][NextSig]_vars

(***************************************************************************)
(* Job lifecycle and webhook delivery: the properties.                     *)
(***************************************************************************)
LegalPrefixes ==
    {<<"pending">>, <<"pending", "processing">>,
     <<"pending", "processing", "completed">>,
     <<"pending", "processing", "failed">>}

LegalTransitions ==
    {<<"pending", "processing">>, <<"processing", "completed">>,
     <<"processing", "failed">>}

Last(seq) == seq[Len(seq)]

\* How many deliveries trigger_webhook has started for a job, and how many
\* workers have invoked the work function for it.
DeliveriesStarted(job_id) ==
    Cardinality({d \in Deliveries : deliv[d].job = job_id})
Captures(job_id) ==
    Cardinality({w \in Workers : /\ worker[w].job = job_id
                                 /\ worker[w].pc \in {"finish", "done"}})

\* C1: a job created and scheduled once has a recorded status sequence that
\* is a prefix of pending, processing, completed|failed, and every poll
\* through get_job_status reads the latest recorded status, so what a reader
\* sees never regresses and no terminal status is recorded without
\* processing before it.
C1_LifecyclePrefix ==
    \A j \in JobIds :
        Created(j) =>
            /\ hist[j] \in LegalPrefixes
            /\ j \in DOMAIN jobs => get_job_status(j).status = Last(hist[j])

C1_Witness ==
    \E j \in DOMAIN jobs :
        /\ Scheduled(j) = 1
        /\ hist[j] = <<"pending", "processing", "failed">>
        /\ get_job_status(j).status = "failed"

\* C2: under any sequence of calls the only status changes are
\* pending->processing, processing->completed and processing->failed
\* (so a terminal status is never left).
C2_OnlyLegalTransitions ==
    \A j \in JobIds :
        \A i \in 1..(Len(hist[j]) - 1) :
            <<hist[j][i], hist[j][i + 1]>> \in LegalTransitions

\* C5: webhook delivery is started at most once per job id, however often
\* a terminal status is written or trigger_webhook is called.
C5_OneDeliveryPerJob ==
    \A j \in JobIds : DeliveriesStarted(j) <= 1

\* C6: at most one worker ever invokes the work function for a job, even
\* when process_job_async is called again for the same job id.
C6_OneWorkerPerJob ==
    \A j \in JobIds : Captures(j) <= 1

\* C7: result and error of a job are never both set; result is set only in
\* status completed and error only in status failed.
C7_ResultErrorExclusive ==
    \A j \in DOMAIN jobs :
        /\ ~(jobs[j].result # Null /\ jobs[j].error # Null)
        /\ jobs[j].result # Null => jobs[j].status = "completed"
        /\ jobs[j].error # Null => jobs[j].status = "failed"

C7_Witness ==
    \E j \in DOMAIN jobs :
        /\ jobs[j].status = "failed"
        /\ jobs[j].error = "boom"
        /\ jobs[j].result = Null

\* C9: a delivery whose target answered non-2xx every time made exactly
\* max_retries POSTs, with non-decreasing waits between them, then marked the
\* job delivery-failed (webhook_failed set, webhook_delivered not set) and
\* makes no further attempt.
NonDecreasing(seq) == \A i \in 1..(Len(seq) - 1) : seq[i] <= seq[i + 1]

C10_Any2xxDelivers ==
    \A d \in Deliveries :
        deliv[d].got_2xx =>
            /\ deliv[d].pc = "done"
            /\ deliv[d].job \in DOMAIN jobs =>
                  /\ jobs[deliv[d].job].webhook_delivered
                  /\ ~jobs[deliv[d].job].webhook_failed

(***************************************************************************)
(* RateLimiter: the properties.                                            *)
(***************************************************************************)
\* How many of the timestamps in seq are not older than from.
InSpan(seq, from) == Cardinality({i \in DOMAIN seq : seq[i] >= from})

\* C3: once requests_per_minute requests of a credential have been admitted
\* within the 60 seconds up to a call, check_rate_limit returns False and
\* get_retry_after returns more than 0.
C3_DeniesBeyondLimit ==
    InSpan(last.prior, last.time - Minute) >= requests_per_minute =>
        /\ last.op = "check" => ~last.allowed
        /\ last.op = "retry" => last.seconds > 0

C3_Witness ==
    /\ last.op = "retry"
    /\ InSpan(last.prior, last.time - Minute) = requests_per_minute
    /\ last.seconds > 0
    /\ checks > requests_per_minute

\* C4: in every interleaving of the request threads, the timestamps admitted
\* for a credential in the trailing 60 s never exceed requests_per_minute,
\* and in the trailing 3600 s never exceed requests_per_hour.
C4_NeverOverLimit ==
    \A k \in Keys :
        /\ InSpan(admitted[k], now - Minute) <= requests_per_minute
        /\ InSpan(admitted[k], now - Hour) <= requests_per_hour

\* C8: when fewer than requests_per_minute of the admitted requests are
\* within the last 60 seconds (the first of the last N is more than 60 s
\* old) and the hourly limit is not reached, check_rate_limit returns True.
C8_WindowSlides ==
    (/\ last.op = "check"
     /\ InSpan(last.prior, last.time - Minute) < requests_per_minute
     /\ InSpan(last.prior, last.time - Hour) < requests_per_hour)
        => last.allowed

C8_Witness ==
    LET n == Len(last.prior)
        first == n - requests_per_minute + 1
    IN /\ last.op = "check"
       /\ last.allowed
       /\ first >= 1
       /\ last.prior[first] < last.time - Minute
       /\ last.prior[first + 1] >= last.time - Minute

(***************************************************************************)
(* Rate limiter: waits, admission records and the remaining quota.         *)
(***************************************************************************)
\* Every request admitted so far for the credential of call c lies within
\* the second before c.
WithinOneSecond(c) ==
    \A i \in DOMAIN c.prior : c.prior[i] >= c.time - TicksPerSec

\* C17 as stated: requests_per_minute + 1 calls for one credential within
\* one second: the first requests_per_minute return True, the next returns
\* False, and get_retry_after then returns between 1 and 60.
C17_RetryWithin60 ==
    WithinOneSecond(last) =>
        /\ (last.op = "check" /\ Len(last.prior) < requests_per_minute)
               => last.allowed
        /\ (last.op = "check" /\ Len(last.prior) = requests_per_minute)
               => ~last.allowed
        /\ (last.op = "retry" /\ Len(last.prior) = requests_per_minute)
               => last.seconds \in 1..60

\* C17, amended: requests_per_minute + 1 calls for one credential within
\* one second: the first requests_per_minute return True, the next returns
\* False, and get_retry_after then returns between 1 and 61: 61 exactly when
\* it reads the timestamp of the oldest admitted call, 60 otherwise.
C17_RetryWithin61 ==
    WithinOneSecond(last) =>
        /\ (last.op = "check" /\ Len(last.prior) < requests_per_minute)
               => last.allowed
        /\ (last.op = "check" /\ Len(last.prior) = requests_per_minute)
               => ~last.allowed
        /\ (last.op = "retry" /\ Len(last.prior) = requests_per_minute)
               => /\ last.seconds \in 1..61
                  /\ last.seconds = 61 <=> last.time = last.prior[1]
                  /\ last.seconds # 61 => last.seconds = 60

C17_Witness ==
    /\ last.op = "retry"
    /\ Len(last.prior) = requests_per_minute
    /\ WithinOneSecond(last)
    /\ last.time > last.prior[1]
    /\ last.seconds = 60
    /\ checks > requests_per_minute

\* The oldest admitted timestamp that is still within the window.
OldestFrom(seq, from) ==
    seq[CHOOSE i \in DOMAIN seq :
            /\ seq[i] >= from
            /\ \A j \in DOMAIN seq : seq[j] >= from => i <= j]

\* The wait until the oldest timestamp of a window of the given length
\* leaves it, as get_retry_after rounds it.
WindowWait(c, length) ==
    IntSeconds(length - (c.time - OldestFrom(c.prior, c.time - length))) + 1

Longer(a, b) == IF a >= b THEN a ELSE b

BothAtCapacity(c) ==
    /\ InSpan(c.prior, c.time - Minute) >= requests_per_minute
    /\ InSpan(c.prior, c.time - Hour) >= requests_per_hour

\* C18: when both the minute window and the hour window of a credential are
\* at capacity, get_retry_after returns the longer of the two waits.
C18_LongerWait ==
    (last.op = "retry" /\ BothAtCapacity(last)) =>
        last.seconds = Longer(WindowWait(last, Minute), WindowWait(last, Hour))

\* C19: a check_rate_limit call that returns True appends its timestamp to
\* both windows of the credential and to nothing else; a call that returns
\* False appends nothing to either window.
C19_NoPartialAdmission ==
    [][\A t \in Threads :
          LET k == rl[t].key
          IN /\ (rl[t].pc = "append" /\ rl'[t].pc = "idle") =>
                    /\ last'.op = "check" /\ last'.allowed
                    /\ minute_requests' = [minute_requests EXCEPT
                           ![k] = Append(@, rl[t].current_time)]
                    /\ hour_requests' = [hour_requests EXCEPT
                           ![k] = Append(@, rl[t].current_time)]
             /\ (rl[t].pc = "count" /\ rl'[t].pc = "idle") =>
                    /\ last'.op = "check" /\ ~last'.allowed
                    /\ minute_requests' = minute_requests
                    /\ hour_requests' = hour_requests
             /\ (rl[t].pc = "count" /\ rl'[t].pc = "append") =>
                    /\ minute_requests' = minute_requests
                    /\ hour_requests' = hour_requests
             /\ (rl[t].pc = "idle" /\ rl'[t].pc = "count") =>
                    \A c \in Keys :
                        /\ Len(minute_requests'[c]) <= Len(minute_requests[c])
                        /\ Len(hour_requests'[c]) <= Len(hour_requests[c])
      ]_vars

C19_Witness ==
    /\ last.op = "check"
    /\ last.allowed
    /\ Len(last.prior) > 0
    /\ minute_requests[last.key] # <<>>
    /\ hour_requests[last.key] # <<>>
    /\ minute_requests[last.key][Len(minute_requests[last.key])] = last.time
    /\ hour_requests[last.key][Len(hour_requests[last.key])] = last.time
    /\ Len(hour_requests[last.key]) > Len(minute_requests[last.key])

\* C20: get_remaining_requests reports, for each window, the limit less the
\* requests admitted within the window (never less than 0); it records no
\* request, so that whatever calls to it came before, check_rate_limit
\* answers by the admitted requests alone.
C20_RemainingIsPure ==
    /\ last.op = "remaining" =>
           /\ last.remaining.per_minute =
                  Max0(requests_per_minute
                           - InSpan(last.prior, last.time - Minute))
           /\ last.remaining.per_hour =
                  Max0(requests_per_hour
                           - InSpan(last.prior, last.time - Hour))
           /\ admitted[last.key] = last.prior
    /\ last.op = "check" =>
           (last.allowed <=>
               /\ InSpan(last.prior, last.time - Minute) < requests_per_minute
               /\ InSpan(last.prior, last.time - Hour) < requests_per_hour)
    /\ \A k \in Keys :
           /\ Len(hour_requests[k]) <= Len(admitted[k])
           /\ Len(minute_requests[k]) <= Len(hour_requests[k])

C20_Witness ==
    /\ last.op = "remaining"
    /\ last.remaining.per_minute = requests_per_minute - 1
    /\ last.remaining.per_hour = 0
    /\ Len(last.prior) = requests_per_hour

(***************************************************************************)
(* CacheService: the properties.                                           *)
(***************************************************************************)
\* The entry that a lookup found in the index, and its age in ticks.
AgeAt(call) ==
    call.time - fromisoformat(call.pre_index[call.key].timestamp)

\* C11: get_cached_screenshot(h) after a cache_screenshot(h, artifact) that
\* copied the artifact, with nothing in between and no more than the
\* duration later, returns a path in the cache directory whose file has the
\* content of the artifact; a lookup of an entry older than the duration
\* returns None.
C11_RoundTripAndExpiry ==
    clast.op = "get" =>
        /\ (/\ clast.prev.op = "store"
            /\ clast.prev.found
            /\ clast.prev.key = clast.key
            /\ clast.time <= clast.prev.time + timedelta(cache_duration_hours))
               => /\ clast.found
                  /\ clast.path.dir = "cache"
                  /\ clast.path \in DOMAIN cache_files
                  /\ cache_files[clast.path] = clast.prev.content
        /\ (/\ clast.key \in DOMAIN clast.pre_index
            /\ AgeAt(clast) > timedelta(cache_duration_hours))
               => ~clast.found

C11_Witness ==
    /\ clast.op = "get"
    /\ clast.prev.op = "store"
    /\ clast.prev.found
    /\ clast.prev.key = clast.key
    /\ clast.time = clast.prev.time
    /\ clast.found
    /\ cache_files[clast.path] = clast.prev.content
    /\ clast.pre_files # <<>>
    /\ cache_calls = MaxCacheCalls

\* C12: get_cached_screenshot returns None exactly when the key has no
\* entry, the entry is older than the duration, or its file is missing; in
\* the last two cases the entry, and only it, leaves the index; in every
\* other case the path of the entry is returned and the index is as before.
C12_AbsentInThreeCases ==
    clast.op = "get" =>
        LET no_entry == clast.key \notin DOMAIN clast.pre_index
            entry == clast.pre_index[clast.key]
            too_old == /\ ~no_entry
                       /\ AgeAt(clast) > timedelta(cache_duration_hours)
            missing == /\ ~no_entry
                       /\ entry.file_path \notin DOMAIN clast.pre_files
        IN /\ ~clast.found <=> (no_entry \/ too_old \/ missing)
           /\ no_entry => cache_index = clast.pre_index
           /\ (too_old \/ missing) =>
                  /\ clast.key \notin DOMAIN cache_index
                  /\ DOMAIN cache_index = DOMAIN clast.pre_index \ {clast.key}
                  /\ \A c \in DOMAIN cache_index :
                         cache_index[c] = clast.pre_index[c]
           /\ clast.found =>
                  /\ clast.path = entry.file_path
                  /\ cache_index = clast.pre_index

C12_Witness ==
    /\ clast.op = "get"
    /\ ~clast.found
    /\ clast.key \in DOMAIN clast.pre_index
    /\ clast.pre_index[clast.key].file_path \in DOMAIN clast.pre_files
    /\ AgeAt(clast) > timedelta(cache_duration_hours)
    /\ clast.key \notin DOMAIN cache_index
    /\ cache_index # <<>>

(***************************************************************************)
(* The cache key: the properties.                                          *)
(***************************************************************************)
\* C13: the same parameter values give the same key string, and requests
\* that differ in a parameter of the key give different key strings.
C13_DistinctKeys ==
    kout # NoKeys =>
        /\ kin[1] = kin[2] => kout[1] = kout[2]
        /\ kin[1] # kin[2] => kout[1] # kout[2]

(***************************************************************************)
(* The /screenshot handler: the properties.                                *)
(***************************************************************************)
\* C14: a response served from the cache answers a request whose capture
\* arguments are those of the request that populated the entry.
C14_HitHasSameCaptureArgs ==
    response.served = "cache" =>
        CaptureArgs(response.params) = CaptureArgs(response.before.params)

\* The request was answered while an artifact stored under its key by an
\* earlier request was no older than the duration.
StoredWithinDuration(r) ==
    /\ r.before.stored
    /\ r.time <= r.before.time + timedelta(cache_duration_hours)

\* C15: an admitted, valid request whose key holds an artifact stored within
\* the duration is served that artifact and nothing is captured; any other
\* is captured once, and the capture that returns is stored under the key
\* of the request when its copy succeeds, with the time of the request.
C15_CacheBeforeCapture ==
    response.status \in {200, 500} =>
        /\ StoredWithinDuration(response) =>
               /\ response.status = 200
               /\ response.served = "cache"
               /\ response.captures = 0
               /\ response.content = CaptureArgs(response.before.params)
        /\ ~StoredWithinDuration(response) =>
               /\ response.captures = 1
               /\ response.served = "cache" => FALSE
               /\ response.status = 200 =>
                      /\ response.served = "capture"
                      /\ response.content = CaptureArgs(response.params)
               /\ response.stored =>
                      LET key == KeyOf(response.params)
                      IN /\ key \in DOMAIN cache_index
                         /\ cache_index[key].file_path \in DOMAIN cache_files
                         /\ cache_files[cache_index[key].file_path]
                                = response.content
                         /\ fromisoformat(cache_index[key].timestamp)
                                = response.time
                         /\ OriginOf(response.params).time = response.time

C15_Witness ==
    /\ response.status = 200
    /\ response.served = "cache"
    /\ response.captures = 0
    /\ response.before.stored
    /\ response.before.params = response.params
    /\ response.time = response.before.time + timedelta(cache_duration_hours)
    /\ requests = 2

\* C16: every response with status 200 carries both rate limit headers,
\* each the decimal text of an integer.
C16_HeadersOnEverySuccess ==
    response.status = 200 =>
        /\ response.headers.present
        /\ response.headers.minute
               \in {<<ToString(n)>> : n \in 0..requests_per_minute}
        /\ response.headers.hour
               \in {<<ToString(n)>> : n \in 0..requests_per_hour}


(***************************************************************************)
(* Jobs and deliveries: creation, failure, delivery and reading.           *)
(***************************************************************************)
\* The worker that ran a job, once it has made its terminal update.
Finished(w, kind) ==
    /\ worker[w].pc = "done"
    /\ worker[w].outcome.kind = kind

\* C21: the step of create_job that makes an id a job takes an id that was
\* in the table neither now nor ever before, leaves every other record as
\* it was, inserts a record with status pending and result and error None,
\* and when it returns no worker exists for the job: the work function has
\* not been invoked for it.
C21_CreateReturnsPending ==
    [][\A j \in JobIds :
          (hist'[j] # hist[j] /\ hist'[j] = <<"pending">>) =>
              /\ ~Created(j)
              /\ j \notin DOMAIN jobs
              /\ j \in DOMAIN jobs'
              /\ \A k \in DOMAIN jobs : jobs'[k] = jobs[k]
              /\ jobs'[j].status = "pending"
              /\ jobs'[j].result = Null
              /\ jobs'[j].error = Null
              /\ \A w \in Workers : worker'[w].job # j]_vars

C21_Witness ==
    \E j \in DOMAIN jobs :
        /\ hist[j] = <<"pending">>
        /\ jobs[j].status = "pending"
        /\ jobs[j].result = Null
        /\ Scheduled(j) = 0

\* C22: when the work function raised in a job's worker (capture_screenshot
\* raises with a message that is never empty), the worker ends normally with
\* the job recorded as failed and the message as its error, nothing else is
\* disturbed; the work function is invoked at most once per job, and no
\* worker runs a job that is failed.
C22_FailureRecordedOnce ==
    /\ \A w \in Workers :
          (Finished(w, "raise") /\ Truthy(worker[w].outcome.value)) =>
              /\ Last(hist[worker[w].job]) = "failed"
              /\ worker[w].job \in DOMAIN jobs =>
                    /\ jobs[worker[w].job].status = "failed"
                    /\ jobs[worker[w].job].error = worker[w].outcome.value
                    /\ jobs[worker[w].job].result = Null
    /\ \A j \in JobIds :
          /\ Captures(j) <= 1
          /\ (Created(j) /\ Last(hist[j]) = "failed") =>
                \A w \in Workers : worker[w].job = j => worker[w].pc = "done"

C22_Witness ==
    \E w \in Workers :
        /\ Finished(w, "raise")
        /\ worker[w].outcome.value = "boom"
        /\ worker[w].job \in DOMAIN jobs
        /\ jobs[worker[w].job].error = "boom"
        /\ Captures(worker[w].job) = 1

\* C23: a job created without a webhook target never has a delivery started
\* for it and is never marked delivered; when its work function returned an
\* artifact, its statuses were pending, processing, completed and the
\* artifact is its result.
C23_NoTargetNoDelivery ==
    \A j \in DOMAIN jobs :
        ~jobs[j].webhook_url =>
            /\ ~jobs[j].webhook_delivered
            /\ get_job_status(j).webhook_delivered = FALSE
            /\ DeliveriesStarted(j) = 0
            /\ \A w \in Workers :
                  (worker[w].job = j /\ Finished(w, "return")
                       /\ Truthy(worker[w].outcome.value)) =>
                      /\ hist[j] = <<"pending", "processing", "completed">>
                      /\ jobs[j].status = "completed"
                      /\ jobs[j].result = worker[w].outcome.value

C23_Witness ==
    \E j \in DOMAIN jobs :
        /\ ~jobs[j].webhook_url
        /\ jobs[j].status = "completed"
        /\ jobs[j].result = "artifact"
        /\ ~jobs[j].webhook_delivered
        /\ DeliveriesStarted(j) = 0
        /\ clock > 0

\* C25: the wait recorded before the first retry of a delivery is 2 seconds
\* and before the second retry 4 seconds, whether the attempt before it was
\* answered non-2xx or raised, and no wait follows the last attempt.
C25_BackoffTwoThenFour ==
    \A d \in Deliveries :
        /\ Len(deliv[d].delays) <= max_retries - 1
        /\ \A i \in DOMAIN deliv[d].delays : deliv[d].delays[i] = 2 ^ i

\* C29: a delivery exists only for a job whose terminal status has been
\* recorded, and while no attempt of it has finished the job already reads
\* as completed or failed; a step of a delivery thread, whatever its outcome,
\* leaves the status, result and error of every job, the recorded statuses
\* and every worker as they were.
C29_DeliveryLeavesJobAlone ==
    [][/\ \A d \in Deliveries :
             deliv'[d].pc # "free" =>
                 /\ Last(hist'[deliv'[d].job]) \in Terminal
                 /\ deliv'[d].job \in DOMAIN jobs' =>
                       jobs'[deliv'[d].job].status \in Terminal
       /\ (\E d \in Deliveries :
              deliv[d].pc \in {"post", "exhausted"} /\ deliv'[d] # deliv[d]) =>
             /\ worker' = worker
             /\ hist' = hist
             /\ DOMAIN jobs' = DOMAIN jobs
             /\ \A j \in DOMAIN jobs :
                   /\ jobs'[j].status = jobs[j].status
                   /\ jobs'[j].result = jobs[j].result
                   /\ jobs'[j].error = jobs[j].error]_vars

C29_Witness ==
    \E d \in Deliveries :
        /\ deliv[d].pc = "done"
        /\ deliv[d].attempt = max_retries
        /\ deliv[d].job \in DOMAIN jobs
        /\ jobs[deliv[d].job].webhook_failed
        /\ jobs[deliv[d].job].status = "completed"
        /\ jobs[deliv[d].job].result = "artifact"
        /\ get_job_status(deliv[d].job).status = "completed"

\* C30: a get_job_status call changes nothing of the job table or its file;
\* for an id that is not in the table (never created, or removed by
\* cleanup_old_jobs) it returns None, and otherwise the job's status, result,
\* error and webhook_delivered as they are, webhook_delivered being true only
\* when a delivery for the job was answered 200.
C30_StatusIsSnapshot ==
    [][view' # view =>
          LET job_id == view'.job_id
              returned == view'.returned
          IN /\ jobs' = jobs
             /\ job_file' = job_file
             /\ hist' = hist
             /\ IF job_id \in DOMAIN jobs
                THEN /\ returned # PyNone
                     /\ returned.status = jobs[job_id].status
                     /\ returned.result = jobs[job_id].result
                     /\ returned.error = jobs[job_id].error
                     /\ returned.webhook_delivered
                            = jobs[job_id].webhook_delivered
                     /\ returned.webhook_delivered =>
                            \E d \in Deliveries : /\ deliv[d].job = job_id
                                                  /\ deliv[d].got_2xx
                ELSE returned = PyNone]_vars

C30_Witness ==
    /\ view.job_id \in JobIds
    /\ Created(view.job_id)
    /\ view.job_id \notin DOMAIN jobs
    /\ view.returned = PyNone

\* C26: whatever happens to the process during a save, each of the two
\* files is afterwards either what it was or a complete text: no step leaves
\* a file that cannot be parsed.
C26_SaveIsAtomic ==
    [][/\ job_file' = job_file \/ job_file'.state = "written"
       /\ cache_index_file' = cache_index_file
              \/ cache_index_file'.state = "written"]_vars

\* C27: while the jobs file (the cache index file) on disk cannot be parsed,
\* the service constructed over it holds an empty table, as over an empty
\* directory, and every status read (every cache lookup) returns absent.
C27_UnreadableStartsEmpty ==
    /\ job_file.state = "unreadable" =>
          /\ jobs = <<>>
          /\ \A j \in JobIds : get_job_status(j) = PyNone
    /\ cache_index_file.state = "unreadable" =>
          /\ cache_index = <<>>
          /\ \A h \in CacheKeys :
                ~get_cached_screenshot(cache_index, cache_files, h, now).found

C27_Witness ==
    /\ job_file = Unreadable
    /\ \A j \in JobIds : hist[j] = <<>>
    /\ view.job_id \in JobIds
    /\ view.returned = PyNone
    /\ cache_index_file = Unreadable
    /\ cache_calls = 1
    /\ clast.op = "get"
    /\ ~clast.found

\* The same members, in whatever order.
SameFields(a, b) == {a[i] : i \in DOMAIN a} = {b[i] : i \in DOMAIN b}

\* C24: a payload's own signature verifies under its secret; two payloads
\* with the same members in a different order have the same signature; and
\* verification returns False for the signature of a payload that differs in
\* a member, for the signature made with another secret, and for any other
\* signature string.
C24_SignatureRoundTrip ==
    sout # NoSignatures =>
        /\ sout.own = "True"
        /\ SameFields(sin.payload, sin.other_payload) =>
              generate_signature(sin.payload, sin.secret)
                  = generate_signature(sin.other_payload, sin.secret)
        /\ (\/ sin.given # "computed"
            \/ ~SameFields(sin.payload, sin.other_payload)
            \/ sin.secret # sin.other_secret) => sout.other = "False"

\* A delivery thread has ended: after marking the job, or at the KeyError
\* of a record that cleanup_old_jobs has removed.
Ended(d) ==
    \/ deliv[d].pc = "died"
    \/ /\ deliv[d].pc = "done"
       /\ deliv[d].job \in DOMAIN jobs =>
             \/ jobs[deliv[d].job].webhook_delivered
             \/ jobs[deliv[d].job].webhook_failed

StatusChars ==
    [pending |-> 9, processing |-> 12, completed |-> 11, failed |-> 8]
JobChars(job) ==
    StatusChars[job.status]
        + (IF Truthy(job.result) THEN 10 ELSE 4)
        + (IF Truthy(job.error) THEN 10 ELSE 4)
        + (IF job.webhook_delivered THEN 86 ELSE 0)
        + (IF job.webhook_failed THEN 28 ELSE 0)

RECURSIVE TableChars(_, _)
TableChars(table, ids) ==
    IF ids = {}
    THEN 0
    ELSE LET j == CHOOSE i \in ids : TRUE
         IN JobChars(table[j]) + TableChars(table, ids \ {j})

\* The length of the bytes of a file.
FileChars(file) ==
    IF file.text = <<>>
    THEN 0
    ELSE TableChars(json_load(file.text), DOMAIN json_load(file.text))

\* f.write of a whole text from offset 0 into a file other threads have
\* written: a file no longer than the text is replaced by it; of a longer
\* one the tail stays behind the text, which json.load cannot parse.
Overlay(file, text) ==
    IF TableChars(json_load(text), DOMAIN json_load(text)) >= FileChars(file)
    THEN [state |-> "written", text |-> text]
    ELSE [state |-> "unreadable", text |-> file.text]

\* What the actions of this part leave alone.
savars ==
    <<worker, deliv, clock, hist, api_calls, rvars, cvars, svars, kvars,
      view, sin, sout, swept, ct>>

\* save_jobs, line 39: open(self.job_file, 'w') empties the file.
SaveOpen(t) ==
    /\ st[t].pc = "open"
    /\ job_file' = Unreadable
    /\ st' = [st EXCEPT ![t].pc = "dump"]
    /\ UNCHANGED <<jobs, savars>>

\* line 40: json.dump(self.jobs, f) puts the text of the table, as it is
\* now, into the buffer of f.
SaveDump(t) ==
    /\ st[t].pc = "dump"
    /\ st' = [st EXCEPT ![t].pc = "close", ![t].buffer = json_dump(jobs)]
    /\ UNCHANGED <<jobs, job_file, savars>>

\* The end of the with block: f is closed and its buffer written to the
\* file from offset 0.
SaveClose(t) ==
    /\ st[t].pc = "close"
    /\ job_file' = Overlay(job_file, st[t].buffer)
    /\ st' = [st EXCEPT ![t].pc = st[t].after, ![t].buffer = <<>>]
    /\ UNCHANGED <<jobs, savars>>

\* worker(), line 241: update_job_status(job_id, 'processing') up to its
\* call of save_jobs.
SaverProcessing(t) ==
    /\ st[t].pc = "idle"
    /\ jobs' = [jobs EXCEPT ![t] = UpdatedJob(@, "processing", Null, Null)]
    /\ st' = [st EXCEPT ![t].pc = "open", ![t].after = "exec"]
    /\ UNCHANGED <<job_file, savars>>

\* worker(), lines 244-251: the work function returns or raises, and
\* update_job_status records it, up to its call of save_jobs.
SaverFinish(t, outcome) ==
    /\ st[t].pc = "exec"
    /\ jobs' = [jobs EXCEPT ![t] =
                   IF outcome.kind = "return"
                   THEN UpdatedJob(@, "completed", outcome.value, Null)
                   ELSE UpdatedJob(@, "failed", Null, outcome.value)]
    /\ st' = [st EXCEPT ![t].pc = "open", ![t].after = "post"]
    /\ UNCHANGED <<job_file, savars>>

\* _send_webhook in the thread trigger_webhook started: a 200 marks the job
\* delivered (lines 180-181), max_retries attempts without one mark it
\* failed (lines 191-192); save_jobs follows.
SaverDelivery(t, delivered) ==
    /\ st[t].pc = "post"
    /\ jobs' = IF delivered
               THEN [jobs EXCEPT ![t].webhook_delivered = TRUE]
               ELSE [jobs EXCEPT ![t].webhook_failed = TRUE,
                                 ![t].attempts = max_retries]
    /\ st' = [st EXCEPT ![t].pc = "open", ![t].after = "done"]
    /\ UNCHANGED <<job_file, savars>>

\* Two requests to /screenshot/async have been answered: their jobs are
\* pending and saved, and their workers are about to run.
InitSave ==
    /\ clock = 0
    /\ jobs = [j \in Threads |-> NewJob(TRUE)]
    /\ job_file = save_jobs(jobs)
    /\ cache_index_file = NoFile
    /\ view = NoView
    /\ swept = NoSweep
    /\ ct = [t \in Threads |-> IdleCacheThread]
    /\ st = [t \in Threads |-> IdleSaver]
    /\ worker = [w \in Workers |-> FreeWorker]
    /\ deliv = [d \in Deliveries |-> FreeDelivery]
    /\ hist = [j \in JobIds |-> <<>>]
    /\ api_calls = 0
    /\ RLInit
    /\ CacheInit
    /\ HandlerInit
    /\ kin = <<NoParams, NoParams>>
    /\ kout = NoKeys
    /\ sin = NoSignatures
    /\ sout = NoSignatures

NextSave ==
    \/ \E t \in Threads : SaverProcessing(t)
    \/ \E t \in Threads, outcome \in Outcomes : SaverFinish(t, outcome)
    \/ \E t \in Threads, delivered \in BOOLEAN : SaverDelivery(t, delivered)
    \/ \E t \in Threads : SaveOpen(t)
    \/ \E t \in Threads : SaveDump(t)
    \/ \E t \in Threads : SaveClose(t)

SpecSave == InitSave /\ [][NextSave]_vars

(***************************************************************************)
(* Outcomes, sweeps and admission: the properties.                         *)
(***************************************************************************)
\* C31: once a job's worker has made its terminal update, a job whose work
\* function returned is completed with the returned value as its result,
\* and a job whose work function raised is failed with an error that is
\* not None, whatever was returned and whatever the message of the
\* exception, the empty one included.
C31_OutcomeRecorded ==
    \A w \in Workers :
        (worker[w].pc = "done" /\ worker[w].job \in DOMAIN jobs) =>
            LET job == jobs[worker[w].job]
            IN /\ worker[w].outcome.kind = "return" =>
                     /\ job.status = "completed"
                     /\ job.result = worker[w].outcome.value
               /\ worker[w].outcome.kind = "raise" =>
                     /\ job.status = "failed"
                     /\ job.error # Null

\* The windows of a credential as a call made now would clean them.
CleanMinute(k) == DropOld(minute_requests[k], now - Minute)
CleanHour(k) == DropOld(hour_requests[k], now - Hour)

\* C32: at every instant and for every credential, get_retry_after would
\* return 0 exactly when check_rate_limit would return True; and a request
\* answered 429 reports a retry_after of at least 1.
C32_ZeroIffAllowed ==
    /\ \A k \in Keys :
          retry_after(CleanMinute(k), CleanHour(k), now) = 0
              <=> WithinLimits(Len(CleanMinute(k)), Len(CleanHour(k)))
    /\ response.status = 429 => response.retry_after >= 1

\* The jobs of a table that are completed or failed and were last updated
\* more than max_age hours before the given time.
OldTerminal(table, time, max_age) ==
    {j \in DOMAIN table : /\ table[j].status \in {"completed", "failed"}
                          /\ time - table[j].updated_at > max_age}

\* C33: after a call cleanup_old_jobs(max_age), the table holds the jobs it
\* held before less those that were completed or failed and older than
\* max_age, each record as it was; the call returned the number of jobs
\* removed; and no pending or processing job has been removed.
C33_SweepsOldTerminalOnly ==
    swept.returned >= 0 =>
        LET gone == OldTerminal(swept.before, swept.time, swept.max_age)
        IN /\ DOMAIN jobs = DOMAIN swept.before \ gone
           /\ \A j \in DOMAIN jobs : jobs[j] = swept.before[j]
           /\ swept.returned = Cardinality(gone)
           /\ \A j \in DOMAIN swept.before :
                 swept.before[j].status \in {"pending", "processing"}
                     => j \in DOMAIN jobs
           /\ job_file = save_jobs(jobs)

C33_Witness ==
    /\ swept.returned = 1
    /\ DOMAIN swept.before = {1, 2}
    /\ swept.before[1].status = "pending"
    /\ swept.before[1].updated_at = 0
    /\ swept.before[2].status = "failed"
    /\ swept.before[2].updated_at = 0
    /\ DOMAIN jobs = {1}

\* The entries of an index that are older than the duration at a time.
PastDuration(index, time) ==
    {c \in DOMAIN index :
        time - fromisoformat(index[c].timestamp)
            > timedelta(cache_duration_hours)}

\* C34: after a call of cleanup_expired_cache the index holds the entries it
\* held before less those older than the duration, each as it was, whether
\* or not any of them was ever looked up; the call returned the number of
\* entries removed; and a lookup of a removed key returns None.
C34_SweepRemovesExpired ==
    clast.op = "cleanup" =>
        LET gone == PastDuration(clast.pre_index, clast.time)
        IN /\ DOMAIN cache_index = DOMAIN clast.pre_index \ gone
           /\ \A c \in DOMAIN cache_index : cache_index[c] = clast.pre_index[c]
           /\ clast.count = Cardinality(gone)
           /\ \A c \in gone :
                 ~get_cached_screenshot(cache_index, cache_files, c,
                                        now).found

C34_Witness ==
    /\ clast.op = "cleanup"
    /\ clast.prev.op = "store"
    /\ clast.count = 1
    /\ Cardinality(DOMAIN clast.pre_index) = 2
    /\ Cardinality(DOMAIN cache_index) = 1

\* C35: once a delivery has ended, the attempts field of its job is the
\* number of POSTs the delivery made: k after a delivery answered 200 on
\* its k-th attempt, max_retries after a delivery that gave up; and no job
\* is marked both delivered and delivery-failed.
C35_AttemptsCountPosts ==
    /\ \A d \in Deliveries :
          (deliv[d].pc = "done" /\ deliv[d].job \in DOMAIN jobs) =>
              /\ jobs[deliv[d].job].attempts = deliv[d].attempt
              /\ jobs[deliv[d].job].webhook_failed =>
                    jobs[deliv[d].job].attempts = max_retries
    /\ \A j \in DOMAIN jobs :
          ~(jobs[j].webhook_delivered /\ jobs[j].webhook_failed)

\* The timestamps a window holds.
Stamps(q) == {q[i] : i \in DOMAIN q}

\* C36: whatever calls of check_rate_limit, get_retry_after,
\* get_remaining_requests and reset_limits have been made one after the
\* other, for every credential the minute window holds at most
\* requests_per_minute timestamps and the hour window at most
\* requests_per_hour, both are in non-decreasing order, and every timestamp
\* of the minute window is in the hour window.
C36_WindowsWellFormed ==
    \A k \in Keys :
        /\ Len(minute_requests[k]) <= requests_per_minute
        /\ Len(hour_requests[k]) <= requests_per_hour
        /\ NonDecreasing(minute_requests[k])
        /\ NonDecreasing(hour_requests[k])
        /\ Stamps(minute_requests[k]) \subseteq Stamps(hour_requests[k])

C36_Witness ==
    \E k \in Keys :
        /\ Len(minute_requests[k]) = requests_per_minute
        /\ Len(hour_requests[k]) = requests_per_hour
        /\ hour_requests[k][1] < minute_requests[k][1]
        /\ minute_requests[k][1] < minute_requests[k][Len(minute_requests[k])]

\* C37: a request that is refused is answered 429 and leaves the cache, the
\* job table and the workers as they were, and takes no slot; every other
\* request is answered 200, 400, 500 or 202 and, whichever it is, has put
\* its timestamp once into the minute window and once into the hour window
\* of its credential, after the windows were cleaned and before anything
\* else; and the cache, the job table and the workers change in no other
\* step than an admitted request.
C37_AdmissionFirstNoRefund ==
    [][/\ requests' # requests =>
             IF response'.status = 429
             THEN /\ admitted' = admitted
                  /\ \A k \in Keys :
                        /\ Len(minute_requests'[k]) <= Len(minute_requests[k])
                        /\ Len(hour_requests'[k]) <= Len(hour_requests[k])
                  /\ UNCHANGED <<cache_index, cache_index_file, cache_files,
                                 jobs, job_file, worker>>
             ELSE /\ response'.status \in {200, 400, 500, 202}
                  /\ \E k \in Keys :
                        /\ admitted' =
                               [admitted EXCEPT ![k] = Append(@, now)]
                        /\ minute_requests' =
                               [minute_requests EXCEPT ![k] =
                                   Append(DropOld(@, now - Minute), now)]
                        /\ hour_requests' =
                               [hour_requests EXCEPT ![k] =
                                   Append(DropOld(@, now - Hour), now)]
       /\ requests' = requests =>
             UNCHANGED <<cache_index, cache_index_file, cache_files, jobs,
                         job_file, worker, minute_requests, hour_requests>>
      ]_vars

\* A request is refused although the cache holds what it asks for, after a
\* capture and an asynchronous submission took the slots.
C37_Witness ==
    /\ response.status = 429
    /\ requests = MaxRequests
    /\ DOMAIN response.params # {}
    /\ Valid(response.params)
    /\ get_cached_screenshot(cache_index, cache_files,
                             KeyOf(Normalized(response.params)), now).found
    /\ jobs # <<>>
    /\ \E k \in Keys : Len(admitted[k]) = requests_per_minute

\* C38: a request to /screenshot whose capture raised answers 500 and leaves
\* the index as its lookup left it, without an entry for its key; a request
\* whose capture returned and whose copy into the cache failed leaves the
\* index the same way, cache_screenshot having returned the path of the
\* capture; either way a lookup of the key afterwards is a miss, and no
\* request adds an entry other than the one it stored.
C38_FailureStoresNothing ==
    [][(requests' # requests /\ response'.captures = 1) =>
          LET p == response'.params
              key == KeyOf(p)
              got == get_cached_screenshot(cache_index, cache_files, key, now)
              artifact == Captured(p, now)
              put == cache_screenshot(got.index, got.files, key, artifact,
                                      now, FALSE)
              unstored ==
                  /\ cache_index' = got.index
                  /\ cache_files' = got.files
                  /\ key \notin DOMAIN cache_index'
                  /\ ~get_cached_screenshot(cache_index', cache_files', key,
                                            now').found
          IN /\ response'.status \in {200, 500}
             /\ response'.status = 500 => (~response'.stored /\ unstored)
             /\ (response'.status = 200 /\ ~response'.stored) =>
                    /\ unstored
                    /\ put.path = artifact.path
                    /\ put.index = got.index
             /\ DOMAIN cache_index' \subseteq
                    DOMAIN cache_index
                        \cup (IF response'.stored THEN {key} ELSE {})
      ]_vars

\* A capture whose copy failed, made after the entry of an earlier request
\* for the same had expired.
C38_Witness ==
    /\ response.status = 200
    /\ response.served = "capture"
    /\ ~response.stored
    /\ response.before.stored
    /\ KeyOf(response.params) \notin DOMAIN cache_index
    /\ requests >= 2

\* Every lookup that has ended since a thread last began a call returned
\* (None or a path) instead of raising.
NoLookupRaises ==
    \A t \in Threads : ct[t].op = "get" => ct[t].result # "KeyError"

\* While no call is in progress and the last call of every thread ran to
\* its end, every entry of the index has its file.
QuiescentIndexHasFiles ==
    (\A t \in Threads : /\ ct[t].pc = "idle"
                        /\ ct[t].result \notin {"KeyError", "RuntimeError"})
        => \A c \in DOMAIN cache_index :
               cache_index[c].file_path \in DOMAIN cache_files

\* C39: concurrent get_cached_screenshot calls on a key whose entry is
\* expired or whose file is missing all return None without raising, and
\* once concurrent cache_screenshot, cleanup_expired_cache and lookup calls
\* have ended the index refers to no entry whose file an eviction removed.
C39_ConcurrentCacheSafe == NoLookupRaises /\ QuiescentIndexHasFiles

\* C40: when several job workers and delivery threads have called
\* save_jobs concurrently and all of them have finished, the jobs file holds
\* the in-memory job table: no update is lost and the file is not a mixture
\* of two writes.
C40_FileHoldsTable ==
    (\A t \in Threads : st[t].pc = "done") => job_file = save_jobs(jobs)

====
